---- MODULE Spec2Model ----
(***************************************************************************)
(* Deck backup / restore engine of anki-words-builder:                     *)
(*   src/src/services/backups.py  (archive codec, conflict gate)           *)
(*   src/src/services/cards.py    (card CRUD, merge engine)                *)
(*   src/src/services/decks.py    (deck rows)                              *)
(*   src/src/api/cards.py         (edit handler in front of the service)   *)
(*                                                                         *)
(* Values.  UUIDs, timestamps and audio file names are integers, NULL (0)  *)
(* is Python None / SQL NULL for them.  Audio blobs, payloads, directions, *)
(* names are strings; NONE is None for them and "" is the empty string /   *)
(* empty bytes (falsy in Python, still NOT NULL in SQL).  uuid.uuid4() is  *)
(* the next value of the counter uuid, which starts above every identifier *)
(* an archive can name (a random UUID never collides with a known one).    *)
(* An ISO-8601 string is the one-element sequence <<t>>, JSON null is <<>>. *)
(* A media path is <<card_id, side>>, a null path is <<>>.                 *)
(***************************************************************************)
EXTENDS Integers, Sequences, FiniteSets, TLC

VARIABLES
    decks,      \* table decks: set of rows
    cards,      \* table cards: set of rows
    now,        \* the database clock NOW(), one tick per request
    uuid,       \* next value handed out by uuid.uuid4()
    res,        \* the last request: its arguments, its outcome, the tables before it
    codec,      \* encode / decode pipeline of one export (pure functions)
    conc        \* an import in flight between its commits, and what a reader saw

vars == <<decks, cards, now, uuid, res, codec, conc>>

NULL == 0
NONE == "None"

\* ---------------------------------------------------------------- bounds
MaxOps == 3

\* ------------------------------------------------------- program constants
BACKUP_VERSION == 2
SUPPORTED_BACKUP_VERSIONS == {1, 2}
Directions == {"forward", "backward"}
Policies == {"override", "prefer_newest", "only_new"}

\* Python truthiness of the values used in `if x:` / `x or y`.
Truthy(x) == x # NULL /\ x # NONE /\ x # "" /\ x # <<>>
TruthyId(x) == x # NULL
TruthyStr(x) == x # NONE /\ x # ""

\* ---------------------------------------------------------------- helpers
Max(S) == CHOOSE m \in S : \A x \in S : x <= m
Min(S) == CHOOSE m \in S : \A x \in S : m <= x
EmptyFn == [x \in {} |-> NULL]

RECURSIVE SeqOf(_)
\* the elements of the set S as a sequence, by ascending id (a definite order
\* for rows whose order the code does not depend on)
SeqOf(S) ==
    IF S = {} THEN <<>>
    ELSE LET r == CHOOSE x \in S : \A y \in S : x.id <= y.id
         IN <<r>> \o SeqOf(S \ {r})

\* ------------------------------------------------------------ timestamps
_serialize_timestamp(value) == IF value = NULL THEN <<>> ELSE <<value>>

\* an ISO string that datetime.fromisoformat rejects is <<t>> with t < 0
_parse_timestamp(value) ==
    IF value = <<>> THEN NULL
    ELSE IF value[1] > 0 THEN value[1] ELSE NULL

\* ------------------------------------------------------------- identity
\* uuid.UUID(str(candidate)) for the first truthy of the three ids; with all
\* three absent the seed is uuid4(), so the result is `fresh`, a new random id
\* (every id of the model is a well-formed uuid text or absent)
_entry_anki_uuid(card, fresh) ==
    LET candidate == IF card.entry_anki_id # NULL THEN card.entry_anki_id
                     ELSE IF card.card_group_id # NULL THEN card.card_group_id
                     ELSE card.id
    IN IF candidate # NULL THEN candidate ELSE fresh

\* the side lost from the member name: both sides of a card share one member
_audio_path_NoSide(card_id, side) == <<card_id, "audio">>

\* f"{MEDIA_PREFIX}/{card_id}_{side}.bin"
_audio_path(card_id, side) == <<card_id, side>>

_sanitize_deck(deck) ==
    [id |-> deck.id, anki_id |-> deck.anki_id, name |-> deck.name,
     target_language |-> deck.target_language,
     field_schema |-> deck.field_schema,
     prompt_templates |-> deck.prompt_templates,
     created_at |-> _serialize_timestamp(deck.created_at),
     updated_at |-> _serialize_timestamp(deck.updated_at)]

\* uuid5(CARD_GUID_NAMESPACE, "{entry}:{direction}").hex : a hash of the pair
stable_card_guid(entry_anki_id, direction) == <<entry_anki_id, direction>>

\* export_deck: note_guid = card["id"].replace("-", ""), the row id in hex
note_guid(card) == card.id

\* ------------------------------------------------------------- encoder
\* export_deck (the Anki package): `if direction == "forward" and not
\* front_audio and back_audio: front_audio = back_audio; back_audio = None`
export_sides(card) ==
    IF card.direction = "forward" /\ ~TruthyStr(card.front_audio) /\ TruthyStr(card.back_audio)
    THEN [front_audio |-> card.back_audio, back_audio |-> NONE]
    ELSE [front_audio |-> card.front_audio, back_audio |-> card.back_audio]

\* the backup encoder moving audio as the Anki export does
AudioSides_Repointed(card) == export_sides(card)

\* create_backup_archive: card.get("front_audio"), card.get("back_audio")
AudioSides(card) == [front_audio |-> card.front_audio, back_audio |-> card.back_audio]

\* one iteration of the loop of create_backup_archive: the manifest entry of a
\* card and the media members written for it
\* (card is a row of the table: its id and card_group_id are never NULL, init_db
\* backfills card_group_id and every INSERT sets both)
EncodeCard(card) ==
    LET card_id == card.id
        entry_uuid == _entry_anki_uuid(card, NULL)
        sides == AudioSides(card)
        hasFront == TruthyStr(sides.front_audio)
        hasBack == TruthyStr(sides.back_audio)
        entry == [id |-> card_id,
                  card_group_id |-> card.card_group_id,
                  entry_anki_id |-> entry_uuid,
                  anki_card_id |-> stable_card_guid(entry_uuid, card.direction),
                  direction |-> card.direction,
                  payload |-> card.payload,
                  audio_filename |-> card.audio_filename,
                  created_at |-> _serialize_timestamp(card.created_at),
                  updated_at |-> _serialize_timestamp(card.updated_at),
                  front_audio_path |-> IF hasFront THEN _audio_path(card_id, "front") ELSE <<>>,
                  back_audio_path |-> IF hasBack THEN _audio_path(card_id, "back") ELSE <<>>]
        m1 == IF hasFront THEN (_audio_path(card_id, "front") :> sides.front_audio) ELSE EmptyFn
        m2 == IF hasBack THEN (_audio_path(card_id, "back") :> sides.back_audio) ELSE EmptyFn
    IN [entry |-> entry, media |-> m2 @@ m1]

RECURSIVE EncodeCards(_, _, _, _)
EncodeCards(cs, i, entries, media) ==
    IF i > Len(cs) THEN [cards |-> entries, media |-> media]
    ELSE LET e == EncodeCard(cs[i])
         IN EncodeCards(cs, i + 1, Append(entries, e.entry), e.media @@ media)

\* the archive bytes: the manifest member and the media members of the zip
create_backup_archive(deck, cs) ==
    LET enc == EncodeCards(cs, 1, <<>>, EmptyFn)
    IN [manifest |-> [version |-> BACKUP_VERSION,
                      generated_at |-> _serialize_timestamp(now),
                      deck |-> _sanitize_deck(deck),
                      cards |-> enc.cards],
        media |-> enc.media]

\* ------------------------------------------------------------- decoder
\* archive.read(path), None on KeyError or for a null path
ReadMedia(media, path) ==
    IF path = <<>> THEN NONE
    ELSE IF path \in DOMAIN media THEN media[path] ELSE NONE

\* every manifest row is taken, whatever its direction
KeepsRow_Always(direction) == TRUE

\* `if direction not in ("forward", "backward"): continue`
KeepsRow(direction) == direction \in Directions

\* the loop over manifest["cards"] in import_backup; next is the first unused
\* random uuid (consumed by a row that names none of the three ids)
RECURSIVE DecodeCards(_, _, _, _, _)
DecodeCards(rows, media, i, out, next) ==
    IF i > Len(rows) THEN [cards_payload |-> out, next |-> next]
    ELSE LET card == rows[i] IN
         IF ~KeepsRow(card.direction)
         THEN DecodeCards(rows, media, i + 1, out, next)
         ELSE LET random == card.entry_anki_id = NULL /\ card.card_group_id = NULL
                            /\ card.id = NULL
                  entry_uuid == _entry_anki_uuid(card, next)
                  item == [card_group_id |-> card.card_group_id,
                           entry_anki_id |-> entry_uuid,
                           direction |-> card.direction,
                           payload |-> IF TruthyStr(card.payload) THEN card.payload ELSE "{}",
                           audio_filename |-> card.audio_filename,
                           created_at |-> _parse_timestamp(card.created_at),
                           updated_at |-> _parse_timestamp(card.updated_at),
                           front_audio |-> ReadMedia(media, card.front_audio_path),
                           back_audio |-> ReadMedia(media, card.back_audio_path)]
              IN DecodeCards(rows, media, i + 1, Append(out, item),
                             IF random THEN next + 1 ELSE next)

\* import_backup from json.loads to the end of the `with zipfile.ZipFile`
\* block, for a manifest that is a JSON object: the parsed deck fields and card
\* list, or the ValueError raised.  `manifest.get("version") or 1`: a missing
\* version and the version 0 are both falsy and both read as 1.
DecodeManifest(archive, next) ==
    LET manifest == archive.manifest
        version == IF manifest.version = NULL THEN 1 ELSE manifest.version
        deck_info == manifest.deck
        dec == DecodeCards(manifest.cards, archive.media, 1, <<>>, next)
        error == IF version \notin SUPPORTED_BACKUP_VERSIONS
                     THEN "Unsupported backup version."
                 ELSE IF ~TruthyStr(deck_info.name) \/ ~TruthyStr(deck_info.target_language)
                     THEN "Backup is missing deck metadata."
                 ELSE IF deck_info.anki_id < 0
                     THEN "Invalid Anki deck identifier in backup."
                 ELSE NONE
    IN [error |-> error,
        unhandled |-> FALSE,
        name |-> deck_info.name,
        target_language |-> deck_info.target_language,
        field_schema |-> deck_info.field_schema,
        prompt_templates |-> deck_info.prompt_templates,
        deck_anki_uuid |-> deck_info.anki_id,
        cards_payload |-> IF error = NONE THEN dec.cards_payload ELSE <<>>,
        entry_ids |-> IF error = NONE
                      THEN {dec.cards_payload[k].entry_anki_id : k \in 1..Len(dec.cards_payload)}
                      ELSE {},
        next |-> IF error = NONE THEN dec.next ELSE next]

\* what import_backup raises before it has a manifest object
Undecoded(error, unhandled, next) ==
    [error |-> error, unhandled |-> unhandled, name |-> NONE, target_language |-> NONE,
     field_schema |-> NONE, prompt_templates |-> NONE, deck_anki_uuid |-> NULL,
     cards_payload |-> <<>>, entry_ids |-> {}, next |-> next]

\* import_backup up to the end of the `with zipfile.ZipFile` block.  The bytes
\* are a record: a zip container has the field media (its members besides the
\* manifest); its manifest member is the field manifest when it holds a JSON
\* object and the field manifest_text (the raw text) otherwise.
\*   - not a container: zipfile.ZipFile raises BadZipFile, which is no ValueError
\*   - no manifest member: KeyError, turned into ValueError
\*   - text that is not JSON: json.JSONDecodeError, a ValueError
\*   - JSON that is not an object: manifest.get raises AttributeError
DecodeArchive(archive, next) ==
    IF "media" \notin DOMAIN archive
        THEN Undecoded("BadZipFile", TRUE, next)
    ELSE IF "manifest" \in DOMAIN archive
        THEN DecodeManifest(archive, next)
    ELSE IF "manifest_text" \notin DOMAIN archive
        THEN Undecoded("Invalid backup file.", FALSE, next)
    ELSE IF archive.manifest_text = "[]"
        THEN Undecoded("AttributeError", TRUE, next)
    ELSE Undecoded("JSONDecodeError", FALSE, next)


\* ---------------------------------------------------------- merge engine
\* bucket["cards"][direction] = normalized_card : a dict keeps the position of
\* a key that is assigned again
PutCard(cs, c) ==
    IF \E j \in 1..Len(cs) : cs[j].direction = c.direction
    THEN [j \in 1..Len(cs) |-> IF cs[j].direction = c.direction THEN c ELSE cs[j]]
    ELSE Append(cs, c)

RECURSIVE GroupLoop(_, _, _, _)
GroupLoop(cs, i, grouped, next) ==
    IF i > Len(cs) THEN [entries |-> grouped, next |-> next]
    ELSE LET card == cs[i] IN
         IF card.direction \notin Directions THEN GroupLoop(cs, i + 1, grouped, next)
         ELSE LET random == card.entry_anki_id = NULL /\ card.card_group_id = NULL
                  entry_key == IF card.entry_anki_id # NULL THEN card.entry_anki_id
                               ELSE IF card.card_group_id # NULL THEN card.card_group_id
                               ELSE next
                  normalized_card ==
                      [direction |-> card.direction,
                       payload |-> IF TruthyStr(card.payload) THEN card.payload ELSE "{}",
                       created_at |-> card.created_at,
                       updated_at |-> IF card.updated_at # NULL THEN card.updated_at
                                      ELSE card.created_at,
                       front_audio |-> card.front_audio,
                       back_audio |-> card.back_audio,
                       audio_filename |-> card.audio_filename]
                  known == \E j \in 1..Len(grouped) : grouped[j].entry_anki_id = entry_key
                  grouped2 ==
                      IF known
                      THEN [j \in 1..Len(grouped) |->
                              IF grouped[j].entry_anki_id = entry_key
                              THEN [grouped[j] EXCEPT !.cards = PutCard(@, normalized_card)]
                              ELSE grouped[j]]
                      ELSE Append(grouped, [entry_anki_id |-> entry_key,
                                            cards |-> <<normalized_card>>])
              IN GroupLoop(cs, i + 1, grouped2, IF random THEN next + 1 ELSE next)

\* the buckets in insertion order, each with its cards in insertion order
_group_restore_payload(cs, next) == GroupLoop(cs, 1, <<>>, next)

\* entry_id = row["entry_anki_id"] or row["card_group_id"]
EntryKey(row) == IF row.entry_anki_id # NULL THEN row.entry_anki_id ELSE row.card_group_id

\* The SELECT of _load_existing_entries has no ORDER BY.  For the rows R of one
\* entry key the dict built from them keeps the group of the row fetched first
\* and, per direction, the row fetched last; every such pair that one fetch
\* order produces is a possible value.
LastRows(R, d) ==
    LET Rd == {r \in R : r.direction = d}
    IN IF Rd = {} THEN {{}} ELSE {{r} : r \in Rd}

FetchChoices(R) ==
    LET choices == {<<f, lf \cup lb>> : f \in R, lf \in LastRows(R, "forward"),
                                        lb \in LastRows(R, "backward")}
    IN {p \in choices :
          \A r \in p[2] : r = p[1] =>
              Cardinality({x \in R : x.direction = r.direction}) = 1}

EntryViews(R) ==
    {[group_id |-> p[1].card_group_id,
      cards |-> [d \in {r.direction : r \in p[2]} |->
                   LET r == CHOOSE x \in p[2] : x.direction = d
                   IN [id |-> r.id, updated_at |-> r.updated_at]]] : p \in FetchChoices(R)}

RECURSIVE ViewProduct(_, _)
ViewProduct(keys, rows) ==
    IF keys = {} THEN {EmptyFn}
    ELSE LET k == CHOOSE x \in keys : TRUE
             rest == ViewProduct(keys \ {k}, rows)
         IN {(k :> v) @@ f : v \in EntryViews({r \in rows : EntryKey(r) = k}), f \in rest}

\* the possible results of _load_existing_entries over the rows of one deck
_load_existing_entries(rows) == ViewProduct({EntryKey(r) : r \in rows}, rows)

_safe_uuid(value, fresh) == IF value # NULL THEN value ELSE fresh

\* A cursor inside one transaction is st = [rows, next, ok]: the table as the
\* transaction sees it, the next random uuid, and ok = FALSE once a statement
\* has raised (the transaction is then never committed).
\* INSERT of one restored card; created_at / updated_at are NOT NULL columns
\* and an explicit NULL does not take the column default.
_insert_entry_card(st, owner_id, deck_id, group_id, entry_uuid, card) ==
    LET card_id == st.next
        created_at == card.created_at
        updated_at == IF card.updated_at # NULL THEN card.updated_at ELSE created_at
        row == [id |-> card_id,
                card_group_id |-> group_id,
                entry_anki_id |-> entry_uuid,
                deck_id |-> deck_id,
                owner_id |-> owner_id,
                direction |-> card.direction,
                payload |-> IF TruthyStr(card.payload) THEN card.payload ELSE "{}",
                front_audio |-> IF TruthyStr(card.front_audio) THEN card.front_audio ELSE NONE,
                back_audio |-> IF TruthyStr(card.back_audio) THEN card.back_audio ELSE NONE,
                audio_filename |-> card.audio_filename,
                created_at |-> created_at,
                updated_at |-> updated_at]
    IN IF ~st.ok THEN st
       ELSE IF created_at = NULL \/ updated_at = NULL
            THEN [st EXCEPT !.ok = FALSE, !.next = @ + 1]
            ELSE [st EXCEPT !.rows = @ \cup {row}, !.next = @ + 1]

RECURSIVE InsertLoop(_, _, _, _, _, _, _, _)
InsertLoop(st, owner_id, deck_id, group_id, entry_uuid, cs, i, acc) ==
    IF i > Len(cs) \/ ~st.ok THEN [st |-> st, inserted |-> acc.inserted,
                                   inserted_cards |-> acc.inserted_cards]
    ELSE LET card == cs[i]
             card_id == st.next
             st2 == _insert_entry_card(st, owner_id, deck_id, group_id, entry_uuid, card)
         IN InsertLoop(st2, owner_id, deck_id, group_id, entry_uuid, cs, i + 1,
                [inserted |-> acc.inserted + 1,
                 inserted_cards |-> (card.direction :>
                     [id |-> card_id, updated_at |-> card.updated_at]) @@ acc.inserted_cards])

_insert_entry_cards(st, owner_id, deck_id, group_id, entry_uuid, cs) ==
    InsertLoop(st, owner_id, deck_id, group_id, entry_uuid, cs, 1,
               [inserted |-> 0, inserted_cards |-> EmptyFn])

\* DELETE FROM cards WHERE id = %s
DeleteById(st, id) == [st EXCEPT !.rows = {r \in @ : r.id # id}]

\* the comparison lost: every dated incoming card replaces the stored one
IncomingIsNewer_Always(incoming_updated, existing_updated) ==
    incoming_updated # NULL

\* if incoming_updated and (not existing_updated or incoming_updated > existing_updated)
IncomingIsNewer(incoming_updated, existing_updated) ==
    incoming_updated # NULL
    /\ (existing_updated = NULL \/ incoming_updated > existing_updated)

RECURSIVE MergeLoop(_, _, _, _, _, _, _, _)
MergeLoop(st, owner_id, deck_id, entry_uuid, existing_entry, cs, i, inserted) ==
    IF i > Len(cs) \/ ~st.ok
    THEN [st |-> st, inserted |-> inserted, entry |-> existing_entry]
    ELSE LET card == cs[i]
             direction == card.direction
             has == direction \in DOMAIN existing_entry.cards
             new_card_id == st.next
             newEntry == [existing_entry EXCEPT !.cards =
                             (direction :> [id |-> new_card_id,
                                            updated_at |-> card.updated_at]) @@ @]
         IN IF ~has
            THEN MergeLoop(_insert_entry_card(st, owner_id, deck_id,
                                existing_entry.group_id, entry_uuid, card),
                           owner_id, deck_id, entry_uuid, newEntry, cs, i + 1, inserted + 1)
            ELSE LET existing_card == existing_entry.cards[direction]
                     incoming_updated == card.updated_at
                     existing_updated == existing_card.updated_at
                 IN IF IncomingIsNewer(incoming_updated, existing_updated)
                    THEN MergeLoop(_insert_entry_card(DeleteById(st, existing_card.id),
                                        owner_id, deck_id, existing_entry.group_id,
                                        entry_uuid, card),
                                   owner_id, deck_id, entry_uuid, newEntry, cs, i + 1,
                                   inserted + 1)
                    ELSE MergeLoop(st, owner_id, deck_id, entry_uuid, existing_entry,
                                   cs, i + 1, inserted)

_merge_entry(st, owner_id, deck_id, entry_uuid, existing_entry, incoming_cards) ==
    MergeLoop(st, owner_id, deck_id, entry_uuid, existing_entry, incoming_cards, 1, 0)

\* the early return lost: an existing entry is merged like any other
SkipsExisting_Never(mode, found) == FALSE

\* if mode == "only_new" and existing: return 0
SkipsExisting(mode, found) == mode = "only_new" /\ found

\* one bucket of the archive against the deck: [st, inserted, existing_entries]
_apply_entry_restore(st, owner_id, deck_id, entry, mode, existing_entries) ==
    LET randomKey == entry.entry_anki_id = NULL
        entry_uuid == _safe_uuid(entry.entry_anki_id, st.next)
        st0 == IF randomKey THEN [st EXCEPT !.next = @ + 1] ELSE st
        entry_key == entry_uuid
        found == entry_key \in DOMAIN existing_entries
    IN IF SkipsExisting(mode, found)
       THEN [st |-> st0, inserted |-> 0, existing_entries |-> existing_entries]
       ELSE IF mode = "prefer_newest" /\ found
       THEN LET m == _merge_entry(st0, owner_id, deck_id, entry_uuid,
                                  existing_entries[entry_key], entry.cards)
            IN [st |-> m.st, inserted |-> m.inserted,
                existing_entries |-> (entry_key :> m.entry) @@ existing_entries]
       ELSE LET group_id == IF found THEN existing_entries[entry_key].group_id ELSE st0.next
                st1 == IF found THEN st0 ELSE [st0 EXCEPT !.next = @ + 1]
                st2 == IF found /\ mode # "replace"
                       THEN [st1 EXCEPT !.rows =
                               {r \in @ : ~(r.owner_id = owner_id /\ r.deck_id = deck_id
                                            /\ r.card_group_id = group_id)}]
                       ELSE st1
                ins == _insert_entry_cards(st2, owner_id, deck_id, group_id, entry_uuid,
                                           entry.cards)
            IN [st |-> ins.st, inserted |-> ins.inserted,
                existing_entries |-> (entry_key :> [group_id |-> group_id,
                                                    cards |-> ins.inserted_cards])
                                     @@ existing_entries]

RECURSIVE RestoreLoop(_, _, _, _, _, _, _, _)
RestoreLoop(st, owner_id, deck_id, entries, mode, existing_entries, i, inserted) ==
    IF i > Len(entries) \/ ~st.ok THEN [st |-> st, inserted |-> inserted]
    ELSE LET a == _apply_entry_restore(st, owner_id, deck_id, entries[i], mode,
                                       existing_entries)
         IN RestoreLoop(a.st, owner_id, deck_id, entries, mode, a.existing_entries,
                        i + 1, inserted + a.inserted)

\* the DELETE lost: mode "replace" keeps the deck's cards
ClearsDeck_Never(mode) == FALSE

\* if mode == "replace": DELETE FROM cards WHERE owner_id = %s AND deck_id = %s
ClearsDeck(mode) == mode = "replace"

\* restore_cards_with_policy as one transaction over the table rows; view is
\* the value _load_existing_entries returned.  Result: ok (committed), the
\* table after it, the next uuid and the returned count.
restore_cards_with_policy(rows, next, owner_id, deck_id, cs, mode, view) ==
    LET g == _group_restore_payload(cs, next)
        st == [rows |-> IF ClearsDeck(mode)
                        THEN {r \in rows : ~(r.owner_id = owner_id /\ r.deck_id = deck_id)}
                        ELSE rows,
               next |-> g.next, ok |-> TRUE]
        existing_entries == IF mode = "replace" THEN EmptyFn ELSE view
        out == RestoreLoop(st, owner_id, deck_id, g.entries, mode, existing_entries, 1, 0)
    IN [ok |-> out.st.ok,
        rows |-> IF out.st.ok THEN out.st.rows ELSE rows,
        next |-> out.st.next,
        inserted |-> out.inserted]


\* ------------------------------------------------------------ deck rows
\* normalize_field_schema: entries without a library key are dropped and a
\* missing foreign_phrase field is put first.  Schemas are tokens: "s1" is in
\* normal form, "s2raw" normalises to "s2".
normalize_field_schema(schema) ==
    IF schema = NONE THEN "default_schema"
    ELSE IF schema = "s2raw" THEN "s2" ELSE schema

\* schema = normalize_field_schema(field_schema) if field_schema else default_field_schema()
SchemaOrDefault(field_schema) ==
    IF TruthyStr(field_schema) THEN normalize_field_schema(field_schema)
    ELSE "default_schema"

\* prompts = deepcopy(prompt_templates) if prompt_templates else default_prompt_templates()
PromptsOrDefault(prompt_templates) ==
    IF TruthyStr(prompt_templates) THEN prompt_templates ELSE "default_prompts"

\* the archive's identity dropped: every new deck gets a random one
DeckAnkiId_Fresh(anki_id, fresh) == fresh

\* deck_anki_id = anki_id or uuid.uuid4()
DeckAnkiId(anki_id, fresh) == IF anki_id # NULL THEN anki_id ELSE fresh

\* create_deck: one transaction inserting the deck row; [deck, next]
create_deck(next, owner_id, name, target_language, field_schema, prompt_templates, anki_id) ==
    LET deck_id == next
        deck_anki_id == DeckAnkiId(anki_id, next + 1)
    IN [deck |-> [id |-> deck_id,
                  owner_id |-> owner_id,
                  anki_id |-> deck_anki_id,
                  name |-> name,
                  target_language |-> target_language,
                  field_schema |-> SchemaOrDefault(field_schema),
                  prompt_templates |-> PromptsOrDefault(prompt_templates),
                  created_at |-> now,
                  updated_at |-> now],
        next |-> IF anki_id # NULL THEN next + 1 ELSE next + 2]

\* the lookup made on the row id instead of the deck identity
get_deck_by_anki_id_ById(owner_id, anki_id) ==
    IF anki_id = NULL THEN {}
    ELSE {d \in decks : d.owner_id = owner_id /\ d.id = anki_id}

\* the owner dropped from the WHERE clause
get_deck_by_anki_id_AnyOwner(owner_id, anki_id) ==
    IF anki_id = NULL THEN {} ELSE {d \in decks : d.anki_id = anki_id}

\* the rows the query of get_deck_by_anki_id matches (fetchone takes one)
get_deck_by_anki_id(owner_id, anki_id) ==
    IF anki_id = NULL THEN {}
    ELSE {d \in decks : d.owner_id = owner_id /\ d.anki_id = anki_id}

\* the UPDATE written as a replacement of the row, which loses its anki_id
apply_backup_metadata_Reidentified(rows, owner_id, deck_id, name, target_language, field_schema, prompt_templates) ==
    {IF d.id = deck_id /\ d.owner_id = owner_id
     THEN [d EXCEPT !.anki_id = NULL,
                    !.name = name,
                    !.target_language = target_language,
                    !.field_schema = SchemaOrDefault(field_schema),
                    !.prompt_templates = PromptsOrDefault(prompt_templates),
                    !.updated_at = now]
     ELSE d : d \in rows}

\* apply_backup_metadata: one committed UPDATE of the deck row
apply_backup_metadata(rows, owner_id, deck_id, name, target_language, field_schema, prompt_templates) ==
    {IF d.id = deck_id /\ d.owner_id = owner_id
     THEN [d EXCEPT !.name = name,
                    !.target_language = target_language,
                    !.field_schema = SchemaOrDefault(field_schema),
                    !.prompt_templates = PromptsOrDefault(prompt_templates),
                    !.updated_at = now]
     ELSE d : d \in rows}

\* merged = deepcopy(existing prompt_templates or defaults); merged["generation"]
\* = generation_prompts : the stored templates with one section replaced
MergedPrompts(existing, generation_prompts) ==
    IF PromptsOrDefault(existing) = "default_prompts" THEN "default_prompts_g"
    ELSE "t1_g"

\* update_deck (called with audio_instructions, audio_enabled and
\* card_templates None): UPDATE decks SET name, target_language, field_schema,
\* updated_at, and prompt_templates when generation_prompts is given
update_deck_rows(rows, owner_id, deck_id, name, target_language, field_schema, generation_prompts) ==
    {IF d.id = deck_id /\ d.owner_id = owner_id
     THEN [d EXCEPT !.name = name,
                    !.target_language = target_language,
                    !.field_schema = normalize_field_schema(field_schema),
                    !.prompt_templates = IF generation_prompts # NONE
                                         THEN MergedPrompts(@, generation_prompts) ELSE @,
                    !.updated_at = now]
     ELSE d : d \in rows}

\* ------------------------------------------------------ conflict descriptor
_conflict_payload(existing, incoming, deck_anki_id, incoming_entry_count, incoming_card_count) ==
    [code |-> "DECK_IMPORT_CONFLICT",
     existingDeck |-> [id |-> existing.id, name |-> existing.name,
                       updated_at |-> _serialize_timestamp(existing.updated_at),
                       anki_id |-> existing.anki_id],
     incomingDeck |-> [name |-> incoming.name, anki_id |-> deck_anki_id,
                       updated_at |-> incoming.updated_at,
                       entry_count |-> incoming_entry_count,
                       card_count |-> incoming_card_count],
     options |-> <<[policy |-> "override", label |-> "Override existing deck"],
                   [policy |-> "prefer_newest", label |-> "Accept newest per entry"],
                   [policy |-> "only_new", label |-> "Import new entries only"]>>]

NoConflict == [code |-> NONE]

\* DeckImportPolicy(value): None stays None, an unknown string raises ValueError
_coerce_policy(value) == value = NONE \/ value \in Policies

PolicyMode(policy) ==
    IF policy = "override" THEN "replace" ELSE policy

\* the deck row written by override alone
AppliesMetadata_OverrideOnly(policy) == policy = "override"

\* if selected_policy in (DeckImportPolicy.OVERRIDE, DeckImportPolicy.PREFER_NEWEST)
AppliesMetadata(policy) == policy \in {"override", "prefer_newest"}

\* ------------------------------------------------------------ import_backup
\* Every outcome of one import_backup call on the current tables:
\* [outcome, decks, cards, uuid, written, conflict, deck_id, decoded], decoded
\* being the cards_payload list built from the manifest.  The deck update
\* (apply_backup_metadata), the deck insert (create_deck) and the card restore
\* each open their own connection and commit on their own.
\* d is what the decode returned.
ImportDecoded(owner_id, archive, policy, d) ==
    LET unchanged(outcome, conflict) ==
            [outcome |-> outcome, decks |-> decks, cards |-> cards, uuid |-> d.next,
             written |-> 0, conflict |-> conflict, deck_id |-> NULL,
             decoded |-> d.cards_payload]
        incoming_entry_count == Cardinality(d.entry_ids)
        incoming_card_count == Len(d.cards_payload)
        matches == get_deck_by_anki_id(owner_id, d.deck_anki_uuid)
        merged(existing_deck) ==
            LET deck_id == existing_deck.id
                decks1 == IF AppliesMetadata(policy)
                          THEN apply_backup_metadata(decks, owner_id, deck_id, d.name,
                                   d.target_language, d.field_schema, d.prompt_templates)
                          ELSE decks
                mode == PolicyMode(policy)
                deckRows == {r \in cards : r.owner_id = owner_id /\ r.deck_id = deck_id}
            IN {[outcome |-> IF r.ok THEN "ok" ELSE "storage_error",
                 decks |-> decks1, cards |-> r.rows, uuid |-> r.next,
                 written |-> IF r.ok THEN r.inserted ELSE 0,
                 conflict |-> NoConflict, deck_id |-> deck_id,
                 decoded |-> d.cards_payload]
                : r \in {restore_cards_with_policy(cards, d.next, owner_id, deck_id,
                                                   d.cards_payload, mode, view)
                         : view \in IF mode = "replace" THEN {EmptyFn}
                                    ELSE _load_existing_entries(deckRows)}}
        \* c is the deck create_deck committed
        restored(c) ==
            {[outcome |-> IF r.ok THEN "ok" ELSE "storage_error",
              decks |-> decks \cup {c.deck}, cards |-> r.rows, uuid |-> r.next,
              written |-> IF r.ok THEN r.inserted ELSE 0,
              conflict |-> NoConflict, deck_id |-> c.deck.id,
              decoded |-> d.cards_payload]
             : r \in {restore_cards_with_policy(cards, c.next, owner_id, c.deck.id,
                                                d.cards_payload, "replace", EmptyFn)}}
        created ==
            UNION {restored(c)
                   : c \in {create_deck(d.next, owner_id, d.name, d.target_language,
                                        d.field_schema, d.prompt_templates,
                                        d.deck_anki_uuid)}}
    IN IF ~_coerce_policy(policy) THEN {unchanged("value_error", NoConflict)}
       ELSE IF d.unhandled THEN {unchanged("unhandled_error", NoConflict)}
       ELSE IF d.error # NONE THEN {unchanged("value_error", NoConflict)}
       ELSE IF matches # {}
            THEN IF policy = NONE
                 THEN {unchanged("conflict",
                           _conflict_payload(existing_deck, archive.manifest.deck,
                               d.deck_anki_uuid, incoming_entry_count, incoming_card_count))
                       : existing_deck \in matches}
                 ELSE UNION {merged(existing_deck) : existing_deck \in matches}
            ELSE created

\* import_backup(owner_id, archive_bytes, policy): decode, then the rest
ImportOutcomes(owner_id, archive, policy) ==
    UNION {ImportDecoded(owner_id, archive, policy, d) : d \in {DecodeArchive(archive, uuid)}}


\* ------------------------------------------------------------ card CRUD
\* _validate_payload: a payload without its required fields raises ValueError
_validate_payload(payload) == payload # "{}"

ValidDirections(directions) == SelectSeq(directions, LAMBDA d : d \in Directions)

RECURSIVE CreateLoop(_, _, _, _, _, _, _, _, _)
CreateLoop(rows, next, owner_id, deck_id, group_id, entry_anki_id, fields, ds, i) ==
    IF i > Len(ds) THEN [rows |-> rows, next |-> next]
    ELSE LET card_id == next
             row == [id |-> card_id,
                     card_group_id |-> group_id,
                     entry_anki_id |-> entry_anki_id,
                     deck_id |-> deck_id,
                     owner_id |-> owner_id,
                     direction |-> ds[i],
                     payload |-> fields.payload,
                     front_audio |-> NONE,
                     back_audio |-> fields.back_audio,
                     audio_filename |-> fields.audio_filename,
                     created_at |-> now,
                     updated_at |-> now]
         IN CreateLoop(rows \cup {row}, next + 1, owner_id, deck_id, group_id,
                       entry_anki_id, fields, ds, i + 1)

\* create_cards: [outcome, cards, uuid, group_id]
CreateOutcome(owner_id, deck_id, payload, directions, audio_bytes) ==
    LET valid_directions == ValidDirections(directions)
        group_id == uuid
        entry_anki_id == uuid + 1
        hasAudio == TruthyStr(audio_bytes)
        audio_filename == IF hasAudio THEN uuid + 2 ELSE NULL
        next == IF hasAudio THEN uuid + 3 ELSE uuid + 2
        ins == CreateLoop(cards, next, owner_id, deck_id, group_id, entry_anki_id,
                          [payload |-> payload,
                           back_audio |-> IF hasAudio THEN audio_bytes ELSE NONE,
                           audio_filename |-> audio_filename],
                          valid_directions, 1)
    IN IF ~_validate_payload(payload) \/ valid_directions = <<>>
       THEN [outcome |-> "value_error", cards |-> cards, uuid |-> uuid, group_id |-> NULL]
       ELSE [outcome |-> "ok", cards |-> ins.rows, uuid |-> ins.next, group_id |-> group_id]

\* the guard lost: every UPDATE sets the three audio columns
SetsAudio_Always(audio_bytes) == TRUE

\* if audio_bytes is not None: the UPDATE also sets the three audio columns
SetsAudio(audio_bytes) == audio_bytes # NONE

\* the loop "Upsert desired directions" of update_card_group; existing is the
\* dict built before the loop and is not updated by the loop
RECURSIVE UpsertLoop(_, _, _, _, _, _)
UpsertLoop(rows, next, ctx, existing, ds, i) ==
    IF i > Len(ds) THEN [rows |-> rows, next |-> next]
    ELSE LET direction == ds[i] IN
         IF direction \in DOMAIN existing
         THEN LET id == existing[direction].id
                  upd(r) == IF SetsAudio(ctx.audio_bytes)
                            THEN [r EXCEPT !.payload = ctx.payload,
                                           !.front_audio = NONE,
                                           !.back_audio = ctx.audio_bytes,
                                           !.audio_filename = ctx.audio_filename,
                                           !.updated_at = now]
                            ELSE [r EXCEPT !.payload = ctx.payload,
                                           !.updated_at = now]
              IN UpsertLoop({IF r.id = id THEN upd(r) ELSE r : r \in rows}, next, ctx,
                            existing, ds, i + 1)
         ELSE LET row == [id |-> next,
                          card_group_id |-> ctx.group_id,
                          entry_anki_id |-> ctx.entry_anki_id,
                          deck_id |-> ctx.deck_id,
                          owner_id |-> ctx.owner_id,
                          direction |-> direction,
                          payload |-> ctx.payload,
                          front_audio |-> NONE,
                          back_audio |-> IF TruthyStr(ctx.audio_bytes)
                                         THEN ctx.audio_bytes ELSE NONE,
                          audio_filename |-> IF TruthyStr(ctx.audio_bytes)
                                             THEN ctx.audio_filename ELSE NULL,
                          created_at |-> now,
                          updated_at |-> now]
              IN UpsertLoop(rows \cup {row}, next + 1, ctx, existing, ds, i + 1)

\* update_card_group: every outcome [outcome, cards, uuid]; the SELECT has no
\* ORDER BY, so rows[0] and the last row per direction are any feasible pair
UpdateOutcomes(owner_id, group_id, deck_id, payload, directions, audio_bytes) ==
    LET valid_directions == ValidDirections(directions)
        rows == {r \in cards : r.owner_id = owner_id /\ r.card_group_id = group_id}
        one(p) ==
            LET existing == [d \in {r.direction : r \in p[2]} |->
                               CHOOSE x \in p[2] : x.direction = d]
                mint == p[1].entry_anki_id = NULL
                entry_anki_id == IF mint THEN uuid ELSE p[1].entry_anki_id
                n1 == IF mint THEN uuid + 1 ELSE uuid
                hasAudio == TruthyStr(audio_bytes)
                audio_filename == IF hasAudio THEN n1 ELSE NULL
                n2 == IF hasAudio THEN n1 + 1 ELSE n1
                ctx == [owner_id |-> owner_id, group_id |-> group_id, deck_id |-> deck_id,
                        entry_anki_id |-> entry_anki_id, payload |-> payload,
                        audio_bytes |-> audio_bytes, audio_filename |-> audio_filename]
                up == UpsertLoop(cards, n2, ctx, existing, valid_directions, 1)
                dropped == {existing[d].id : d \in {x \in DOMAIN existing :
                               \A k \in 1..Len(valid_directions) : valid_directions[k] # x}}
            IN [outcome |-> "ok",
                cards |-> {r \in up.rows : r.id \notin dropped},
                uuid |-> up.next]
    IN IF valid_directions = <<>>
       THEN {[outcome |-> "value_error", cards |-> cards, uuid |-> uuid]}
       ELSE IF rows = {}
       THEN {[outcome |-> "not_found", cards |-> cards, uuid |-> uuid]}
       ELSE {one(p) : p \in FetchChoices(rows)}

\* ---------------------------------------------------------- edit handler
\* base64.b64decode of the request's audioPreview: <<bytes>> when present
_decode_audio_preview(data) == IF data = <<>> THEN NONE ELSE data[1]

RECURSIVE Orderings(_)
\* every order in which a SELECT without ORDER BY can return the rows S
Orderings(S) ==
    IF S = {} THEN {<<>>}
    ELSE UNION {{<<r>> \o t : t \in Orderings(S \ {r})} : r \in S}

\* get_card_group(...)["audio"]: the first fetched row that carries audio
\* gives its front audio, or else its back audio; None without such a row
GroupAudio(rows) ==
    LET withAudio == {r \in rows : TruthyStr(r.front_audio) \/ TruthyStr(r.back_audio)}
    IN IF withAudio = {} THEN {NONE}
       ELSE {IF TruthyStr(r.front_audio) THEN r.front_audio ELSE r.back_audio
             : r \in withAudio}

\* _normalize_directions: the valid requested directions, or else the
\* directions of the group's rows as fetched
_normalize_directions(directions, rows) ==
    LET requested == ValidDirections(directions)
    IN IF requested # <<>> THEN {requested}
       ELSE {[k \in 1..Len(t) |-> t[k].direction] : t \in Orderings(rows)}

\* if audio_bytes is None and group and group.get("audio"): audio_bytes = group["audio"]
HandlerAudio(audio_preview, rows) ==
    LET audio_bytes == _decode_audio_preview(audio_preview)
    IN IF audio_bytes = NONE THEN GroupAudio(rows) ELSE {audio_bytes}


\* ------------------------------------------------------------------ inputs
\* Identifiers an archive made elsewhere can name; uuid4 starts above them.
ExternalIds == 1..9
Owners == {"o1"}

\* a card as another installation holds it (a row of get_cards_for_backup,
\* or a hand-written manifest row: any of the three ids may be absent)
FCard(id, grp, eid, dir, p, t0, t1, fa, ba, fname) ==
    [id |-> id, card_group_id |-> grp, entry_anki_id |-> eid, direction |-> dir,
     payload |-> p, created_at |-> t0, updated_at |-> t1,
     front_audio |-> fa, back_audio |-> ba, audio_filename |-> fname]

\* the manifest row and media of a hand-written archive: the row names exactly
\* the ids the card carries (create_backup_archive always fills entry_anki_id)
ManifestRow(c) ==
    [id |-> c.id, card_group_id |-> c.card_group_id, entry_anki_id |-> c.entry_anki_id,
     anki_card_id |-> stable_card_guid(c.entry_anki_id, c.direction),
     direction |-> c.direction, payload |-> c.payload,
     audio_filename |-> c.audio_filename,
     created_at |-> _serialize_timestamp(c.created_at),
     updated_at |-> _serialize_timestamp(c.updated_at),
     front_audio_path |-> IF TruthyStr(c.front_audio) THEN _audio_path(c.id, "front") ELSE <<>>,
     back_audio_path |-> IF TruthyStr(c.back_audio) THEN _audio_path(c.id, "back") ELSE <<>>]

MediaOf(cs) ==
    [path \in {_audio_path(cs[k].id, "front") : k \in {j \in 1..Len(cs) : TruthyStr(cs[j].front_audio)}}
              \cup {_audio_path(cs[k].id, "back") : k \in {j \in 1..Len(cs) : TruthyStr(cs[j].back_audio)}}
     |-> LET k == CHOOSE j \in 1..Len(cs) : cs[j].id = path[1]
         IN IF path[2] = "front" THEN cs[k].front_audio ELSE cs[k].back_audio]

DeckInfo(name, schema) ==
    [id |-> 9, anki_id |-> 3, name |-> name, target_language |-> "Danish",
     field_schema |-> schema, prompt_templates |-> "t1",
     created_at |-> <<1>>, updated_at |-> <<1>>]

HandArchive(version, deck, cs) ==
    [manifest |-> [version |-> version, generated_at |-> <<1>>, deck |-> deck,
                   cards |-> [k \in 1..Len(cs) |-> ManifestRow(cs[k])]],
     media |-> MediaOf(cs)]

\* entry 1, both directions, audio on the back: an ordinary export
ArchivePair ==
    HandArchive(2, DeckInfo("n1", "s1"),
        <<FCard(4, 6, 1, "forward", "p1", 2, 2, NONE, "a1", 7),
          FCard(5, 6, 1, "backward", "p1", 2, 2, NONE, "a1", 7)>>)
\* entry 1 edited elsewhere: an older forward card with front audio, a newer
\* backward card without audio
ArchiveMixed ==
    HandArchive(2, DeckInfo("n2", "s2raw"),
        <<FCard(4, 6, 1, "forward", "p2", 1, 1, "a2", NONE, 8),
          FCard(5, 6, 1, "backward", "p2", 1, 3, NONE, NONE, NULL)>>)
\* entry 1 modified and newer, plus entry 2 that is new
ArchiveNew ==
    HandArchive(2, DeckInfo("n1", "s1"),
        <<FCard(4, 6, 1, "forward", "p2", 2, 3, "a2", NONE, 8),
          FCard(5, 7, 2, "forward", "p1", 2, 2, NONE, "a1", 7)>>)
\* a legacy row that names no id at all
ArchiveLegacy ==
    HandArchive(1, DeckInfo("n1", "s1"),
        <<FCard(NULL, NULL, NULL, "forward", "p1", 2, 2, NONE, NONE, NULL)>>)
\* a legacy export: both directions of one entry, named by card_group_id only
ArchiveLegacyPair ==
    HandArchive(1, DeckInfo("n1", "s1"),
        <<FCard(4, 6, NULL, "forward", "p1", 2, 2, NONE, "a1", 7),
          FCard(5, 6, NULL, "backward", "p1", 2, 2, NONE, "a1", 7)>>)
\* the same (entry, direction) twice and a row with an invalid direction
ArchiveDup ==
    HandArchive(2, DeckInfo("n1", "s1"),
        <<FCard(4, 6, 1, "forward", "p1", 2, 2, NONE, "a1", 7),
          FCard(5, 6, 1, "forward", "p2", 2, 3, NONE, NONE, NULL),
          FCard(8, 7, 2, "sideways", "p1", 2, 2, NONE, NONE, NULL)>>)
\* a row without created_at (JSON null)
ArchiveNoCreated ==
    HandArchive(2, DeckInfo("n2", "s1"),
        <<FCard(4, 6, 1, "forward", "p2", NULL, 3, NONE, NONE, NULL)>>)

\* a deck of another identity, and a deck that names no identity
ArchiveOther ==
    HandArchive(2, [DeckInfo("n3", "s1") EXCEPT !.anki_id = 2],
        <<FCard(4, 6, 1, "forward", "p1", 2, 2, NONE, NONE, NULL)>>)
ArchiveNoDeckId ==
    HandArchive(2, [DeckInfo("n4", "s1") EXCEPT !.anki_id = NULL],
        <<FCard(4, 6, 1, "forward", "p2", 2, 2, NONE, NONE, NULL)>>)
DeckArchives == {ArchivePair, ArchiveMixed, ArchiveOther, ArchiveNoDeckId}
GenerationPrompts == {NONE, "g1"}

Archives == {ArchivePair, ArchiveMixed, ArchiveNew, ArchiveLegacy, ArchiveLegacyPair,
             ArchiveDup, ArchiveNoCreated}

\* uploads that are not well-formed archives
NotAContainer == [bytes |-> "garbage"]
NoManifest == [media |-> EmptyFn]
ManifestNotJson == [media |-> EmptyFn, manifest_text |-> "{"]
ManifestNotObject == [media |-> EmptyFn, manifest_text |-> "[]"]
ManifestNoName == [ArchivePair EXCEPT !.manifest.deck.name = ""]
ManifestNoLanguage == [ArchivePair EXCEPT !.manifest.deck.target_language = NONE]
ManifestBadDeckId == [ArchivePair EXCEPT !.manifest.deck.anki_id = 0 - 1]
MalformedArchives == {NotAContainer, NoManifest, ManifestNotJson, ManifestNotObject,
                      ManifestNoName, ManifestNoLanguage, ManifestBadDeckId}
\* ArchivePair under other manifest versions
ArchiveVersion0 == [ArchivePair EXCEPT !.manifest.version = 0]
ArchiveVersion3 == [ArchivePair EXCEPT !.manifest.version = 3]
OddArchives == MalformedArchives \cup {ArchiveVersion0, ArchiveVersion3}
OddPolicies == {NONE, "override"}
PolicyInputs == Policies \cup {NONE}
\* the uploads of the model, each with the policies it is sent with
ImportInputs == (Archives \X PolicyInputs) \cup (OddArchives \X OddPolicies)
DirectionLists == {<<"forward">>, <<"forward", "backward">>,
                   <<"backward", "backward">>, <<"sideways">>}
CreateAudio == {NONE, "a3"}
EditAudio == {NONE, "a4"}
HandlerDirections == {<<>>, <<"forward">>}
AudioPreviews == {<<>>, <<"a5">>}

\* ----------------------------------------------------------------- state
NoArchive == [manifest |-> NONE]

NoRes ==
    [op |-> "init", owner_id |-> NONE, policy |-> NONE, archive |-> NoArchive,
     deck_id |-> NULL, group_id |-> NULL, directions |-> <<>>, payload |-> NONE,
     audio |-> NONE, preview |-> <<>>, outcome |-> NONE, written |-> 0, conflict |-> NoConflict,
     decoded |-> <<>>, at |-> NULL, pre_cards |-> {}, pre_decks |-> {}]

\* no import in flight; pre is the tables before the last import, seen the
\* last result a reader got since that import began (<<>>: none)
NoImport == [pc |-> "idle", out |-> [outcome |-> NONE], pre |-> <<{}, {}>>, seen |-> <<>>]

Request(op, owner_id) ==
    [NoRes EXCEPT !.op = op, !.owner_id = owner_id, !.at = now,
                  !.pre_cards = cards, !.pre_decks = decks]

Init ==
    /\ decks = {}
    /\ cards = {}
    /\ now = 1
    /\ uuid = Max(ExternalIds) + 1
    /\ res = NoRes
    /\ codec = [pc |-> "idle"]
    /\ conc = NoImport

\* ---------------------------------------------------------------- actions
\* POST /decks/import -> import_backup(owner_id, archive_bytes, policy)
import_backup(owner_id, archive, policy) ==
    /\ now <= MaxOps
    /\ \E out \in ImportOutcomes(owner_id, archive, policy) :
          /\ decks' = out.decks
          /\ cards' = out.cards
          /\ uuid' = out.uuid
          /\ res' = [Request("import_backup", owner_id) EXCEPT
                        !.policy = policy, !.archive = archive,
                        !.deck_id = out.deck_id, !.outcome = out.outcome,
                        !.written = out.written, !.conflict = out.conflict,
                        !.decoded = out.decoded]
    /\ now' = now + 1
    /\ UNCHANGED <<codec, conc>>

\* create_cards(owner_id, deck, payload, directions, native_language, audio_bytes)
create_cards(owner_id, deck_id, payload, directions, audio_bytes) ==
    /\ now <= MaxOps
    /\ \E d \in decks : d.id = deck_id /\ d.owner_id = owner_id
    /\ LET out == CreateOutcome(owner_id, deck_id, payload, directions, audio_bytes)
       IN /\ cards' = out.cards
          /\ uuid' = out.uuid
          /\ res' = [Request("create_cards", owner_id) EXCEPT
                        !.deck_id = deck_id, !.group_id = out.group_id,
                        !.directions = directions, !.payload = payload,
                        !.audio = audio_bytes, !.outcome = out.outcome]
    /\ now' = now + 1
    /\ UNCHANGED <<decks, codec, conc>>

\* update_card_group(owner_id, group_id, deck, payload, directions, audio_bytes)
update_card_group(owner_id, group_id, deck_id, payload, directions, audio_bytes) ==
    /\ now <= MaxOps
    /\ \E d \in decks : d.id = deck_id /\ d.owner_id = owner_id
    /\ \E out \in UpdateOutcomes(owner_id, group_id, deck_id, payload, directions,
                                 audio_bytes) :
          /\ cards' = out.cards
          /\ uuid' = out.uuid
          /\ res' = [Request("update_card_group", owner_id) EXCEPT
                        !.deck_id = deck_id, !.group_id = group_id,
                        !.directions = directions, !.payload = payload,
                        !.audio = audio_bytes, !.outcome = out.outcome]
    /\ now' = now + 1
    /\ UNCHANGED <<decks, codec, conc>>

\* delete_card_group(owner_id, group_id)
delete_card_group(owner_id, group_id) ==
    /\ now <= MaxOps
    /\ cards' = {r \in cards : ~(r.owner_id = owner_id /\ r.card_group_id = group_id)}
    /\ res' = [Request("delete_card_group", owner_id) EXCEPT
                  !.group_id = group_id,
                  !.outcome = IF cards' # cards THEN "ok" ELSE "not_found"]
    /\ now' = now + 1
    /\ UNCHANGED <<decks, uuid, codec, conc>>

\* POST /cards/actions with mode = "edit", action = "save" and no OpenAI key
\* on the profile (nothing is generated): _handle_action up to and including
\* its call of update_card_group
_handle_action(owner_id, deck_id, group_id, payload, directions, audio_preview) ==
    /\ now <= MaxOps
    /\ \E d \in decks : d.id = deck_id /\ d.owner_id = owner_id
    /\ LET rows == {r \in cards : r.owner_id = owner_id /\ r.card_group_id = group_id}
       IN /\ rows # {}
          /\ \E ds \in _normalize_directions(directions, rows),
                au \in HandlerAudio(audio_preview, rows) :
               \E out \in UpdateOutcomes(owner_id, group_id, deck_id, payload, ds, au) :
                  /\ cards' = out.cards
                  /\ uuid' = out.uuid
                  /\ res' = [Request("_handle_action", owner_id) EXCEPT
                                !.deck_id = deck_id, !.group_id = group_id,
                                !.directions = ds, !.payload = payload,
                                !.audio = au, !.preview = audio_preview,
                                !.outcome = out.outcome]
    /\ now' = now + 1
    /\ UNCHANGED <<decks, codec, conc>>

\* PUT /decks/{deck_id} -> update_deck(owner_id, deck_id, name=..., ...)
update_deck(owner_id, deck_id, name, target_language, field_schema, generation_prompts) ==
    /\ now <= MaxOps
    /\ decks' = update_deck_rows(decks, owner_id, deck_id, name, target_language,
                                 field_schema, generation_prompts)
    /\ res' = [Request("update_deck", owner_id) EXCEPT
                  !.deck_id = deck_id,
                  !.outcome = IF \E d \in decks : d.id = deck_id /\ d.owner_id = owner_id
                              THEN "ok" ELSE "not_found"]
    /\ now' = now + 1
    /\ UNCHANGED <<cards, uuid, codec, conc>>

Groups == {r.card_group_id : r \in cards}
DeckIds == {d.id : d \in decks}

Next ==
    \/ \E o \in Owners, in \in ImportInputs : import_backup(o, in[1], in[2])
    \/ \E o \in Owners, d \in DeckIds, ds \in DirectionLists, au \in CreateAudio :
          create_cards(o, d, "p3", ds, au)
    \/ \E o \in Owners, g \in Groups, d \in DeckIds, ds \in DirectionLists,
          au \in EditAudio : update_card_group(o, g, d, "p4", ds, au)
    \/ \E o \in Owners, g \in Groups, d \in DeckIds, ds \in HandlerDirections,
          pv \in AudioPreviews : _handle_action(o, d, g, "p5", ds, pv)
    \/ \E o \in Owners, g \in Groups : delete_card_group(o, g)

Spec == Init /\ [][Next]_vars

\* ------------------------------------------- export, edit, import again
RECURSIVE OrderedByCreated(_)
\* ORDER BY c.created_at ASC: every order of the rows S in which created_at
\* never decreases (rows of one created_at come in any order)
OrderedByCreated(S) ==
    IF S = {} THEN {<<>>}
    ELSE UNION {{<<r>> \o t : t \in OrderedByCreated(S \ {r})} :
                   r \in {x \in S : \A y \in S : x.created_at <= y.created_at}}

\* get_cards_for_backup: the deck's rows ORDER BY created_at ASC
get_cards_for_backup(owner_id, deck_id) ==
    OrderedByCreated({r \in cards : r.owner_id = owner_id /\ r.deck_id = deck_id})

\* GET /decks/{deck_id}/backup -> backup_deck: the archive the user downloads
\* (the model follows one downloaded archive)
backup_deck(owner_id, deck_id) ==
    /\ codec.pc = "idle"
    /\ \E deck \in {d \in decks : d.id = deck_id /\ d.owner_id = owner_id} :
          \E cs \in get_cards_for_backup(owner_id, deck_id) :
             codec' = [pc |-> "archive", deck |-> deck, cards |-> cs,
                       archive |-> create_backup_archive(deck, cs)]
    /\ UNCHANGED <<decks, cards, now, uuid, res, conc>>

\* a deck that exists already, empty or holding a row stored before entries
\* had an identity of their own (entry_anki_id NULL)
SyncDeck ==
    [id |-> 9, owner_id |-> "o1", anki_id |-> 3, name |-> "n1",
     target_language |-> "Danish", field_schema |-> "s1", prompt_templates |-> "t1",
     created_at |-> 1, updated_at |-> 1]
LegacyRow ==
    [id |-> 4, card_group_id |-> 6, entry_anki_id |-> NULL, deck_id |-> 9,
     owner_id |-> "o1", direction |-> "forward", payload |-> "p1",
     front_audio |-> NONE, back_audio |-> "a1", audio_filename |-> 7,
     created_at |-> 1, updated_at |-> 1]

InitSync ==
    /\ decks = {SyncDeck}
    /\ cards \in {{}, {LegacyRow}}
    /\ now = 1
    /\ uuid = Max(ExternalIds) + 1
    /\ res = NoRes
    /\ codec = [pc |-> "idle"]
    /\ conc = NoImport

\* the requests of a user who keeps one archive of one deck: the policies
\* that merge, entries of one or two cards, edits that keep or drop a card
SyncPolicies == {"prefer_newest", "only_new"}
SyncCreates == {<<"forward", "backward">>, <<"backward", "backward">>}
SyncEdits == {<<"forward">>, <<"forward", "backward">>}

NextSync ==
    \/ \E o \in Owners, d \in DeckIds : backup_deck(o, d)
    \/ \E o \in Owners, p \in SyncPolicies :
          codec.pc = "archive" /\ import_backup(o, codec.archive, p)
    \/ \E o \in Owners : import_backup(o, ArchiveMixed, "prefer_newest")
    \/ \E o \in Owners, d \in DeckIds, ds \in SyncCreates :
          create_cards(o, d, "p3", ds, NONE)
    \/ \E o \in Owners, g \in Groups, d \in DeckIds, ds \in SyncEdits :
          update_card_group(o, g, d, "p4", ds, "a4")

SpecSync == InitSync /\ [][NextSync]_vars

\* two users importing archives of one deck identity
TwoOwners == {"o1", "o2"}
OwnerArchives == {ArchivePair, ArchiveMixed, ArchiveNew}
NextOwners ==
    \E o \in TwoOwners, a \in OwnerArchives, p \in PolicyInputs : import_backup(o, a, p)

SpecOwners == Init /\ [][NextOwners]_vars

\* a user with several decks who creates, edits and deletes cards
GroupArchives == {ArchiveOther, ArchiveNoDeckId}
GroupEdits == {<<"backward">>, <<"forward", "backward">>}
NextGroups ==
    \/ \E o \in Owners, a \in GroupArchives : import_backup(o, a, NONE)
    \/ \E o \in Owners, d \in DeckIds : create_cards(o, d, "p3", <<"forward">>, NONE)
    \/ \E o \in Owners, g \in Groups, d \in DeckIds, ds \in GroupEdits :
          update_card_group(o, g, d, "p4", ds, NONE)
    \/ \E o \in Owners, g \in Groups, d \in DeckIds :
          _handle_action(o, d, g, "p5", <<"forward", "backward">>, <<>>)
    \/ \E o \in Owners, g \in Groups : delete_card_group(o, g)

SpecGroups == Init /\ [][NextGroups]_vars

\* deck requests only: imports of decks of several identities and deck edits
NextDecks ==
    \/ \E o \in Owners, a \in DeckArchives, p \in PolicyInputs : import_backup(o, a, p)
    \/ \E o \in Owners, d \in DeckIds, g \in GenerationPrompts :
          update_deck(o, d, "n5", "Danish", "s2raw", g)

SpecDecks == Init /\ [][NextDecks]_vars

\* ------------------------------------------------- the codec on its own
\* GET /decks/{id}/backup builds the archive from the deck row and the rows of
\* get_cards_for_backup; the decoding half of import_backup reads it back.
MaxCards == 2

\* the rows a deck can hold for the card with row id i: the entry id may be
\* missing on a row older than the column, either side may carry audio, and
\* front audio may be the empty bytes
CodecCards(i) ==
    {[id |-> i, card_group_id |-> 6, entry_anki_id |-> e, deck_id |-> 9,
      owner_id |-> "o1", direction |-> d, payload |-> "p1",
      front_audio |-> fa, back_audio |-> ba,
      audio_filename |-> IF TruthyStr(fa) \/ TruthyStr(ba) THEN 7 ELSE NULL,
      created_at |-> 1, updated_at |-> t]
     : e \in {NULL, 5}, d \in Directions, fa \in {NONE, "", "a1"},
       ba \in {NONE, "a2"}, t \in {1, 2}}

RECURSIVE CardLists(_)
\* the card lists of at most n rows, row ids 1..n
CardLists(n) ==
    IF n = 0 THEN {<<>>}
    ELSE LET S == CardLists(n - 1)
         IN S \cup {Append(cs, c) : cs \in {x \in S : Len(x) = n - 1}, c \in CodecCards(n)}

CodecDeck ==
    [id |-> 9, owner_id |-> "o1", anki_id |-> 3, name |-> "n1",
     target_language |-> "Danish", field_schema |-> "s1", prompt_templates |-> "t1",
     created_at |-> 1, updated_at |-> 1]

InitCodec ==
    /\ decks = {CodecDeck}
    /\ cards = {}
    /\ now = 1
    /\ uuid = Max(ExternalIds) + 1
    /\ res = NoRes
    /\ codec \in {[pc |-> "cards", deck |-> CodecDeck, cards |-> cs]
                  : cs \in CardLists(MaxCards)}
    /\ conc = NoImport

\* archive = create_backup_archive(deck, cards)
Encode ==
    /\ codec.pc = "cards"
    /\ codec' = [pc |-> "archive", deck |-> codec.deck, cards |-> codec.cards,
                 archive |-> create_backup_archive(codec.deck, codec.cards)]
    /\ UNCHANGED <<decks, cards, now, uuid, res, conc>>

\* the `with zipfile.ZipFile(buffer, mode="r")` block of import_backup
Decode ==
    /\ codec.pc = "archive"
    /\ LET decoded == DecodeArchive(codec.archive, uuid)
       IN /\ codec' = [pc |-> "decoded", deck |-> codec.deck, cards |-> codec.cards,
                       archive |-> codec.archive, decoded |-> decoded]
          /\ uuid' = decoded.next
    /\ UNCHANGED <<decks, cards, now, res, conc>>

\* export_deck(deck, cards): the audio each note of the package plays, by side
Export ==
    /\ codec.pc = "cards"
    /\ codec' = [pc |-> "exported", deck |-> codec.deck, cards |-> codec.cards,
                 notes |-> [i \in 1..Len(codec.cards) |->
                              [guid |-> note_guid(codec.cards[i])] @@ export_sides(codec.cards[i])]]
    /\ UNCHANGED <<decks, cards, now, uuid, res, conc>>

NextCodec == Encode \/ Decode \/ Export

SpecCodec == InitCodec /\ [][NextCodec]_vars


\* ------------------------------------------------- an import and a reader
\* import_backup writes through connections of its own, one after the other:
\* apply_backup_metadata or create_deck commits the deck row, then
\* restore_cards_with_policy commits (or rolls back) the card rows.  A request
\* served by another thread or worker reads between the two commits.
\* The first half: decode, look the deck up, commit the deck row.
import_backup_deck(owner_id, archive, policy) ==
    /\ now <= MaxOps
    /\ conc.pc = "idle"
    /\ \E out \in ImportOutcomes(owner_id, archive, policy) :
          /\ decks' = out.decks
          /\ conc' = [pc |-> "restore", out |-> out, pre |-> <<decks, cards>>, seen |-> <<>>]
          /\ res' = [Request("import_backup", owner_id) EXCEPT
                        !.policy = policy, !.archive = archive,
                        !.deck_id = out.deck_id, !.outcome = out.outcome,
                        !.written = out.written, !.conflict = out.conflict,
                        !.decoded = out.decoded]
    /\ now' = now + 1
    /\ UNCHANGED <<cards, uuid, codec>>

\* The second half: the transaction of restore_cards_with_policy (nothing to
\* commit when the import was refused before it)
import_backup_cards ==
    /\ conc.pc = "restore"
    /\ cards' = conc.out.cards
    /\ uuid' = conc.out.uuid
    /\ conc' = [conc EXCEPT !.pc = "idle"]
    /\ UNCHANGED <<decks, now, res, codec>>

\* list_decks(owner_id) of another request: one SELECT over decks and cards,
\* which sees what is committed at that moment
list_decks(owner_id) ==
    /\ conc.seen = <<>>
    /\ conc' = [conc EXCEPT !.seen = <<{d \in decks : d.owner_id = owner_id},
                                      {c \in cards : c.owner_id = owner_id}>>]
    /\ UNCHANGED <<decks, cards, now, uuid, res, codec>>

NextConcurrent ==
    \/ \E o \in Owners, a \in Archives, p \in PolicyInputs : import_backup_deck(o, a, p)
    \/ import_backup_cards
    \/ \E o \in Owners : list_decks(o)

SpecConcurrent == Init /\ [][NextConcurrent]_vars


\* --------------------------------------------------- the paginated card list
MaxPage == 3
MaxLimit == 2
SearchQueries == {NONE, "p4"}

\* WHERE owner_id = %s AND deck_id = %s [AND payload::text ILIKE %s]; payloads
\* are tokens, and a token contains a query exactly when it is the query
MatchingRows(owner_id, deck_id, search_query) ==
    {c \in cards : /\ c.owner_id = owner_id /\ c.deck_id = deck_id
                   /\ (TruthyStr(search_query) => c.payload = search_query)}

\* GROUP BY card_group_id with MAX(updated_at) as max_updated
GroupRows(rows) ==
    {[card_group_id |-> g, max_updated |-> Max({c.updated_at : c \in {x \in rows : x.card_group_id = g}})]
       : g \in {c.card_group_id : c \in rows}}

RECURSIVE OrderedByMaxUpdated(_)
\* ORDER BY max_updated DESC: every order of the group rows in which
\* max_updated never increases
OrderedByMaxUpdated(S) ==
    IF S = {} THEN {<<>>}
    ELSE UNION {{<<r>> \o t : t \in OrderedByMaxUpdated(S \ {r})} :
                   r \in {x \in S : \A y \in S : x.max_updated >= y.max_updated}}

\* LIMIT %s OFFSET %s
LimitOffset(seq, limit, offset) ==
    SubSeq(seq, offset + 1, IF offset + limit < Len(seq) THEN offset + limit ELSE Len(seq))

\* math.ceil(total_groups / limit) if limit > 0 else 1
Pages(total_groups, limit) ==
    IF limit > 0 THEN (total_groups + limit - 1) \div limit ELSE 1

\* list_cards_for_deck_paginated: every value it can return (one per order the
\* groups query can give groups of one max_updated); "cards" lists the groups
\* by id in the order returned
list_cards_for_deck_paginated(owner_id, deck_id, page, limit, search_query) ==
    LET offset == (page - 1) * limit
        matching == MatchingRows(owner_id, deck_id, search_query)
        total_groups == Cardinality({c.card_group_id : c \in matching})
    IN {IF group_rows = <<>>
        THEN [cards |-> <<>>, total |-> 0, page |-> page, limit |-> limit, pages |-> 0]
        ELSE [cards |-> [k \in 1..Len(group_rows) |-> group_rows[k].card_group_id],
              total |-> total_groups, page |-> page, limit |-> limit,
              pages |-> Pages(total_groups, limit)]
        : group_rows \in {LimitOffset(all, limit, offset)
                             : all \in OrderedByMaxUpdated(GroupRows(matching))}}

\* GET /decks/{deck_id}/cards -> list_deck_cards, a read: res keeps the
\* request and what it returned
list_deck_cards(owner_id, deck_id, page, limit, search_query) ==
    /\ \E d \in decks : d.id = deck_id /\ d.owner_id = owner_id
    /\ \E listing \in list_cards_for_deck_paginated(owner_id, deck_id, page, limit,
                                                      search_query) :
          res' = [page |-> page, limit |-> limit, search_query |-> search_query,
                  listing |-> listing]
                 @@ [Request("list_deck_cards", owner_id) EXCEPT !.deck_id = deck_id]
    /\ UNCHANGED <<decks, cards, now, uuid, codec, conc>>

InitPages ==
    /\ decks = {SyncDeck}
    /\ cards = {}
    /\ now = 1
    /\ uuid = Max(ExternalIds) + 1
    /\ res = NoRes
    /\ codec = [pc |-> "idle"]
    /\ conc = NoImport

NextPages ==
    \/ \E o \in Owners, d \in DeckIds, ds \in SyncCreates :
          create_cards(o, d, "p3", ds, NONE)
    \/ \E o \in Owners, g \in Groups, d \in DeckIds :
          update_card_group(o, g, d, "p4", <<"forward">>, NONE)
    \/ \E o \in Owners, d \in DeckIds, page \in 1..MaxPage, limit \in 1..MaxLimit,
          q \in SearchQueries : list_deck_cards(o, d, page, limit, q)

SpecPages == InitPages /\ [][NextPages]_vars


\* ------------------------------------------------- two imports in flight
\* Two POST /decks/import requests served by two workers.  Each runs
\* import_backup, whose statements reach the database in this order: the
\* SELECT of get_deck_by_anki_id; the committed deck statement (create_deck or
\* apply_backup_metadata); the transaction of restore_cards_with_policy, whose
\* DELETE / SELECT read what is committed and whose writes other connections
\* see only after its commit.  Nothing locks the deck between them.  In this
\* specification conc holds the two requests.
Workers == {1, 2}
RaceArchives == {ArchivePair, ArchiveMixed}
Idle == [pc |-> "idle"]

InitRace ==
    /\ decks = {}
    /\ cards = {}
    /\ now = 1
    /\ uuid = Max(ExternalIds) + 1
    /\ res = NoRes
    /\ codec = [pc |-> "idle"]
    /\ conc = [w \in Workers |-> Idle]

\* import_backup up to `existing_deck = get_deck_by_anki_id(...)`
import_backup_lookup(w, owner_id, archive, policy) ==
    /\ now <= MaxOps
    /\ conc[w].pc = "idle"
    /\ \E d \in {DecodeArchive(archive, uuid)} :
          /\ d.error = NONE
          /\ uuid' = d.next
          /\ \E existing \in
                 IF get_deck_by_anki_id(owner_id, d.deck_anki_uuid) = {} THEN {<<>>}
                 ELSE {<<m>> : m \in get_deck_by_anki_id(owner_id, d.deck_anki_uuid)} :
                conc' = [conc EXCEPT ![w] =
                            [pc |-> "deck", owner_id |-> owner_id, archive |-> archive,
                             policy |-> policy, d |-> d, existing_deck |-> existing]]
    /\ now' = now + 1
    /\ UNCHANGED <<decks, cards, res, codec>>

\* from `if existing_deck:` to the committed deck statement: the conflict is
\* raised, or apply_backup_metadata / create_deck commits
import_backup_commit_deck(w) ==
    /\ conc[w].pc = "deck"
    /\ LET q == conc[w]
           d == q.d
       IN IF q.existing_deck # <<>>
          THEN IF q.policy = NONE
               THEN /\ conc' = [conc EXCEPT ![w] = Idle]
                    /\ UNCHANGED <<decks, uuid>>
               ELSE /\ decks' = IF AppliesMetadata(q.policy)
                                THEN apply_backup_metadata(decks, q.owner_id,
                                         q.existing_deck[1].id, d.name, d.target_language,
                                         d.field_schema, d.prompt_templates)
                                ELSE decks
                    /\ conc' = [conc EXCEPT ![w] =
                                    [pc |-> "restore", owner_id |-> q.owner_id, d |-> d,
                                     deck_id |-> q.existing_deck[1].id,
                                     mode |-> PolicyMode(q.policy)]]
                    /\ UNCHANGED uuid
          ELSE \E c \in {create_deck(uuid, q.owner_id, d.name, d.target_language,
                                      d.field_schema, d.prompt_templates,
                                      d.deck_anki_uuid)} :
                  /\ decks' = decks \cup {c.deck}
                  /\ uuid' = c.next
                  /\ conc' = [conc EXCEPT ![w] =
                                  [pc |-> "restore", owner_id |-> q.owner_id, d |-> d,
                                   deck_id |-> c.deck.id, mode |-> "replace"]]
    /\ UNCHANGED <<cards, now, res, codec>>

\* restore_cards_with_policy up to conn.commit(): the DELETE or the SELECT of
\* _load_existing_entries reads the committed rows, and the rows to delete
\* and to insert are decided from them
restore_cards_begin(w) ==
    /\ conc[w].pc = "restore"
    /\ LET q == conc[w]
           deckRows == {r \in cards : r.owner_id = q.owner_id /\ r.deck_id = q.deck_id}
       IN \E view \in IF q.mode = "replace" THEN {EmptyFn}
                       ELSE _load_existing_entries(deckRows) :
            \E r \in {restore_cards_with_policy(cards, uuid, q.owner_id, q.deck_id,
                                                 q.d.cards_payload, q.mode, view)} :
               /\ uuid' = r.next
               /\ conc' = [conc EXCEPT ![w] =
                               [pc |-> "commit", deleted |-> cards \ r.rows,
                                inserted |-> r.rows \ cards]]
    /\ UNCHANGED <<decks, cards, now, res, codec>>

\* conn.commit() of restore_cards_with_policy: its writes become visible
restore_cards_commit(w) ==
    /\ conc[w].pc = "commit"
    /\ cards' = (cards \ conc[w].deleted) \cup conc[w].inserted
    /\ conc' = [conc EXCEPT ![w] = Idle]
    /\ UNCHANGED <<decks, now, uuid, res, codec>>

NextRace ==
    \/ \E w \in Workers, o \in Owners, a \in RaceArchives, p \in PolicyInputs :
          import_backup_lookup(w, o, a, p)
    \/ \E w \in Workers : import_backup_commit_deck(w)
    \/ \E w \in Workers : restore_cards_begin(w)
    \/ \E w \in Workers : restore_cards_commit(w)

SpecRace == InitRace /\ [][NextRace]_vars


\* ================================================================ claims
\* What an archive says, read off its manifest and media.
Rows(a) == a.manifest.cards
RECURSIVE SeqOfIdx(_, _)
SeqOfIdx(a, k) ==
    IF k > Len(Rows(a)) THEN <<>>
    ELSE IF Rows(a)[k].direction \in Directions THEN <<Rows(a)[k]>> \o SeqOfIdx(a, k + 1)
    ELSE SeqOfIdx(a, k + 1)
ValidIdx(a) == {k \in 1..Len(Rows(a)) : Rows(a)[k].direction \in Directions}
\* the identity a row names (NULL when it names none)
NamedId(row) == IF row.entry_anki_id # NULL THEN row.entry_anki_id
                ELSE IF row.card_group_id # NULL THEN row.card_group_id ELSE row.id
\* the card a manifest row describes
Described(a, k) ==
    LET row == Rows(a)[k]
        fa == ReadMedia(a.media, row.front_audio_path)
        ba == ReadMedia(a.media, row.back_audio_path)
        t0 == _parse_timestamp(row.created_at)
        t1 == _parse_timestamp(row.updated_at)
    IN [direction |-> row.direction,
        payload |-> IF TruthyStr(row.payload) THEN row.payload ELSE "{}",
        front_audio |-> IF fa = "" THEN NONE ELSE fa,
        back_audio |-> IF ba = "" THEN NONE ELSE ba,
        audio_filename |-> row.audio_filename,
        created_at |-> t0,
        updated_at |-> IF t1 # NULL THEN t1 ELSE t0]
\* the content of a stored card
Content(r) ==
    [direction |-> r.direction, payload |-> r.payload, front_audio |-> r.front_audio,
     back_audio |-> r.back_audio, audio_filename |-> r.audio_filename,
     created_at |-> r.created_at, updated_at |-> r.updated_at]
\* the archive's last valid row for (entry e, direction d), 0 when there is none
LastIdx(a, e, d) ==
    LET S == {k \in ValidIdx(a) : NamedId(Rows(a)[k]) = e /\ Rows(a)[k].direction = d}
    IN IF S = {} THEN 0 ELSE Max(S)
DeckCards(S, deck_id) == {r \in S : r.deck_id = deck_id}
At(S, deck_id, e, d) ==
    {r \in S : r.deck_id = deck_id /\ EntryKey(r) = e /\ r.direction = d}
Imported == res.op = "import_backup"
\* the deck of the importing owner that carries the archive's deck identity
TargetDecks ==
    {d \in res.pre_decks : d.owner_id = res.owner_id
                           /\ d.anki_id = res.archive.manifest.deck.anki_id}
Parsed == DecodeArchive(res.archive, 0).error = NONE

\* C1: an import without a policy into an owner who holds a deck with the
\* archive's deck identity ends with the conflict outcome, whose descriptor
\* names the existing deck, the incoming deck with its entry and card counts
\* and exactly the policies override, prefer_newest, only_new; decks and cards
\* are what they were before the call.
C1_ConflictGating ==
    (Imported /\ res.policy = NONE /\ Parsed /\ TargetDecks # {}) =>
        /\ res.outcome = "conflict"
        /\ cards = res.pre_cards
        /\ decks = res.pre_decks
        /\ res.conflict.code = "DECK_IMPORT_CONFLICT"
        /\ res.conflict.existingDeck.id \in {d.id : d \in TargetDecks}
        /\ res.conflict.incomingDeck.name = res.archive.manifest.deck.name
        /\ res.conflict.incomingDeck.card_count = Cardinality(ValidIdx(res.archive))
        /\ res.conflict.incomingDeck.entry_count =
               Cardinality({IF NamedId(Rows(res.archive)[k]) # NULL
                            THEN NamedId(Rows(res.archive)[k]) ELSE 0 - k
                            : k \in ValidIdx(res.archive)})
        /\ [k \in 1..Len(res.conflict.options) |-> res.conflict.options[k].policy]
               = <<"override", "prefer_newest", "only_new">>

C1_Witness ==
    /\ Imported /\ res.policy = NONE /\ res.outcome = "conflict"
    /\ res.pre_cards # {}
    /\ res.conflict.incomingDeck.card_count = 2
    /\ res.conflict.incomingDeck.entry_count = 1

\* C3: under only_new every stored card of an entry the deck already holds is
\* left exactly as it was (no card of such an entry is added, changed or
\* removed), and every archive entry the deck does not hold is stored with
\* every direction the archive gives it.
C3_OnlyNew ==
    (Imported /\ res.policy = "only_new" /\ res.outcome = "ok" /\ TargetDecks # {}) =>
        LET a == res.archive
            pre == DeckCards(res.pre_cards, res.deck_id)
            post == DeckCards(cards, res.deck_id)
            held == {EntryKey(r) : r \in pre}
        IN /\ {r \in post : EntryKey(r) \in held} = pre
           /\ \A k \in ValidIdx(a) :
                LET e == NamedId(Rows(a)[k])
                    d == Rows(a)[k].direction
                IN IF e = NULL
                   THEN \E r \in post \ pre : Content(r) = Described(a, k)
                   ELSE e \notin held =>
                          /\ Cardinality(At(post, res.deck_id, e, d)) = 1
                          /\ \A r \in At(post, res.deck_id, e, d) :
                                Content(r) = Described(a, LastIdx(a, e, d))

\* an existing entry whose archive copy is newer and modified, next to a new one
C3_Witness ==
    /\ Imported /\ res.policy = "only_new" /\ res.outcome = "ok"
    /\ res.archive = ArchiveNew
    /\ \E r \in res.pre_cards : EntryKey(r) = 1 /\ r.direction = "forward"
                                 /\ r.updated_at < 3 /\ r \in cards
    /\ \E r \in cards \ res.pre_cards : EntryKey(r) = 2
    /\ res.written = 1

\* C5: an import that fails with a storage error leaves the owner's decks and
\* cards exactly as they were before the call.
C5_AtomicImport ==
    (Imported /\ res.outcome = "storage_error") =>
        decks = res.pre_decks /\ cards = res.pre_cards

\* C6: a deck holds at most one card per (entry identity, direction).
C6_OneCardPerDirection ==
    \A r1 \in cards, r2 \in cards :
        (r1.deck_id = r2.deck_id /\ EntryKey(r1) = EntryKey(r2)
         /\ r1.direction = r2.direction) => r1 = r2


\* C2: under prefer_newest, for every (entry, direction) the deck and the
\* archive both hold: an incoming card strictly newer than the stored card
\* becomes the stored card as a whole row; an incoming card that is as old or
\* older leaves the stored card as it was.
C2_PreferNewest ==
    (Imported /\ res.policy = "prefer_newest" /\ res.outcome = "ok" /\ TargetDecks # {}) =>
        LET a == res.archive
        IN \A k \in ValidIdx(a) :
             LET e == NamedId(Rows(a)[k])
                 d == Rows(a)[k].direction
                 inc == Described(a, LastIdx(a, e, d))
                 B == At(res.pre_cards, res.deck_id, e, d)
                 A == At(cards, res.deck_id, e, d)
             IN (e # NULL /\ B # {}) =>
                  \A b \in B :
                     IF inc.updated_at > b.updated_at
                     THEN A # {} /\ \A r \in A : Content(r) = inc
                     ELSE b \in A

\* C4: an import with prefer_newest or only_new that directly follows an
\* import of the same archive with the same policy writes no card and leaves
\* the card rows as the first import left them.
C4_SecondImportWritesNothing ==
    [][(/\ Imported /\ res.outcome = "ok"
        /\ res.policy \in {"prefer_newest", "only_new"}
        /\ res'.op = "import_backup"
        /\ res'.owner_id = res.owner_id
        /\ res'.archive = res.archive
        /\ res'.policy = res.policy)
       => (res'.outcome = "ok" /\ res'.written = 0 /\ cards' = cards)]_vars

Edited == res.op \in {"update_card_group", "_handle_action"} /\ res.outcome = "ok"

\* C7: an edit that supplies no audio leaves front_audio, back_audio and
\* audio_filename of every card it keeps as they were; a kept card either is
\* untouched or has the edit's payload and the edit's time as updated_at, and
\* every requested direction the group already held is updated.
C7_EditWithoutAudio ==
    (Edited /\ res.audio = NONE) =>
        /\ \A r \in res.pre_cards, r2 \in cards :
              r2.id = r.id =>
                 r2 \in {r, [r EXCEPT !.payload = res.payload, !.updated_at = res.at]}
        /\ \A r \in res.pre_cards :
              (r.card_group_id = res.group_id /\ r.owner_id = res.owner_id
               /\ r.direction \in {res.directions[i] : i \in 1..Len(res.directions)})
              => \E r2 \in cards : /\ r2.card_group_id = r.card_group_id
                                   /\ r2.direction = r.direction
                                   /\ r2.payload = res.payload
                                   /\ r2.updated_at = res.at

C7_Witness ==
    /\ Edited /\ res.audio = NONE
    /\ \E r \in res.pre_cards, r2 \in cards :
          /\ r2.id = r.id /\ r2.payload # r.payload /\ r2.updated_at # r.updated_at
          /\ r.back_audio # NONE /\ r2.back_audio = r.back_audio
          /\ r.audio_filename # NULL /\ r2.audio_filename = r.audio_filename

\* C8: no edit turns a stored front_audio or back_audio into null, and every
\* card an edit changes carries the edit's time as updated_at.
C8_EditNeverErasesAudio ==
    Edited =>
        \A r \in res.pre_cards, r2 \in cards :
           r2.id = r.id =>
              /\ r.front_audio # NONE => r2.front_audio # NONE
              /\ r.back_audio # NONE => r2.back_audio # NONE
              /\ r2 # r => r2.updated_at = res.at

\* the oldest updated_at the deck held for a card's (entry, direction) before
\* the last request is not above the card's updated_at now
NotOlderThanBefore(a) ==
    LET B == At(res.pre_cards, a.deck_id, EntryKey(a), a.direction)
    IN B # {} => a.updated_at >= Min({b.updated_at : b \in B})

\* C9: whatever the last request was (an edit, an import with any policy), no
\* card of a (deck, entry, direction) that existed before it has an older
\* updated_at after it.
C9_NeverDecreases ==
    \A a \in cards : NotOlderThanBefore(a)

\* C9 as amended: an import with prefer_newest or only_new never lowers the
\* updated_at of a (deck, entry, direction); neither does an edit of a card
\* whose stored updated_at is not ahead of the clock.
C9_NeverDecreasesWithoutOverride ==
    \/ Imported /\ res.policy = "override"
    \/ \A a \in cards :
          \/ NotOlderThanBefore(a)
          \/ /\ res.op \in {"update_card_group", "_handle_action"}
             /\ \E b \in At(res.pre_cards, a.deck_id, EntryKey(a), a.direction) :
                   b.updated_at > res.at

\* prefer_newest taking the newer backward card and keeping the newer stored
\* forward card
C9_Witness ==
    /\ Imported /\ res.policy = "prefer_newest" /\ res.outcome = "ok"
    /\ \E a \in cards, b \in res.pre_cards :
          /\ a.deck_id = b.deck_id /\ EntryKey(a) = EntryKey(b)
          /\ a.direction = b.direction /\ a.updated_at > b.updated_at
    /\ \E k \in ValidIdx(res.archive), b \in res.pre_cards :
          /\ b.deck_id = res.deck_id /\ EntryKey(b) = NamedId(Rows(res.archive)[k])
          /\ b.direction = Rows(res.archive)[k].direction
          /\ Described(res.archive, k).updated_at < b.updated_at
          /\ b \in cards


\* C10: decoding the archive create_backup_archive makes of a card list gives
\* one card per input card, in order, with the input's entry identity,
\* direction, payload, audio filename, created_at and updated_at, and with the
\* input's bytes on every side whose audio was not empty.
C10_RoundTrip ==
    codec.pc = "decoded" =>
        LET cs == codec.cards
            out == codec.decoded.cards_payload
        IN /\ codec.decoded.error = NONE
           /\ Len(out) = Len(cs)
           /\ \A i \in 1..Len(cs) :
                /\ out[i].entry_anki_id = NamedId(cs[i])
                /\ out[i].direction = cs[i].direction
                /\ out[i].payload = cs[i].payload
                /\ out[i].audio_filename = cs[i].audio_filename
                /\ out[i].created_at = cs[i].created_at
                /\ out[i].updated_at = cs[i].updated_at
                /\ TruthyStr(cs[i].front_audio) => out[i].front_audio = cs[i].front_audio
                /\ TruthyStr(cs[i].back_audio) => out[i].back_audio = cs[i].back_audio

\* two cards decoded, one with different audio on its two sides, one without
\* an entry id of its own
C10_Witness ==
    /\ codec.pc = "decoded"
    /\ Len(codec.cards) = 2
    /\ \E i \in 1..2 : /\ codec.cards[i].front_audio = "a1"
                       /\ codec.cards[i].back_audio = "a2"
                       /\ codec.decoded.cards_payload[i].front_audio = "a1"
                       /\ codec.decoded.cards_payload[i].back_audio = "a2"
    /\ \E i \in 1..2 : /\ codec.cards[i].entry_anki_id = NULL
                       /\ codec.decoded.cards_payload[i].entry_anki_id = 6


\* C11: after an override import into an existing deck no card stored before
\* is left, every (entry, direction) of the archive with a valid direction is
\* stored as exactly one card with the archive's content, every stored card is
\* a card of the archive, and the returned count is the number of cards stored.
C11_OverrideExact ==
    (Imported /\ res.policy = "override" /\ res.outcome = "ok" /\ TargetDecks # {}) =>
        LET a == res.archive
            pre == DeckCards(res.pre_cards, res.deck_id)
            post == DeckCards(cards, res.deck_id)
        IN /\ \A r \in pre, r2 \in post : r2.id # r.id
           /\ \A k \in ValidIdx(a) :
                LET e == NamedId(Rows(a)[k])
                    d == Rows(a)[k].direction
                IN IF e = NULL
                   THEN \E r \in post : Content(r) = Described(a, k)
                   ELSE /\ Cardinality(At(post, res.deck_id, e, d)) = 1
                        /\ \A r \in At(post, res.deck_id, e, d) :
                              Content(r) = Described(a, LastIdx(a, e, d))
           /\ \A r \in post : \E k \in ValidIdx(a) :
                /\ Content(r) = Described(a, k)
                /\ NamedId(Rows(a)[k]) # NULL => EntryKey(r) = NamedId(Rows(a)[k])
           /\ res.written = Cardinality(post)

\* an override that removes an entry the archive does not mention
C11_Witness ==
    /\ Imported /\ res.policy = "override" /\ res.outcome = "ok"
    /\ res.archive = ArchivePair
    /\ \E r \in res.pre_cards : EntryKey(r) = 2 /\ r.deck_id = res.deck_id
    /\ \A r \in cards : EntryKey(r) = 1
    /\ res.written = 2


\* C12: the row id of a restored card is a function of (entry, direction): a
\* card an import has just stored for an (entry, direction) the deck already
\* held has the row id the earlier card had, and cards of different
\* (deck, entry, direction) have different row ids.
C12_DeterministicRowIds ==
    /\ (Imported /\ res.outcome = "ok") =>
          \A r \in res.pre_cards, r2 \in cards \ res.pre_cards :
             (r.deck_id = r2.deck_id /\ EntryKey(r) = EntryKey(r2)
              /\ r.direction = r2.direction) => r2.id = r.id
    /\ \A r1 \in cards, r2 \in cards :
          r1.id = r2.id => (r1.deck_id = r2.deck_id /\ EntryKey(r1) = EntryKey(r2)
                            /\ r1.direction = r2.direction)

\* C13: the note guid the Anki export gives the card of a (deck, entry,
\* direction) is the same before and after every request that keeps that
\* (entry, direction) in the deck.
C13_StableNoteGuid ==
    \A r \in res.pre_cards, r2 \in cards :
       (r.deck_id = r2.deck_id /\ EntryKey(r) = EntryKey(r2)
        /\ r.direction = r2.direction) => note_guid(r2) = note_guid(r)


\* the last request was an import of a well-formed archive into an owner who
\* held no deck with the archive's deck identity
FirstImport ==
    /\ Imported
    /\ "manifest" \in DOMAIN res.archive
    /\ TargetDecks = {}
    /\ Parsed

\* C14: an import into an owner without a deck of the archive's identity never
\* ends in a conflict or a client error, whatever the policy; when it
\* completes, exactly one deck is new, it carries the archive's deck identity,
\* name and target language, it holds exactly the archive's valid cards and
\* nothing else changed; an import of the same archive without a policy
\* right after it ends in the conflict outcome.
C14_FirstImport ==
    [][/\ FirstImport' =>
            /\ res'.outcome \in {"ok", "storage_error"}
            /\ res'.outcome = "ok" =>
                 LET a == res'.archive
                     fresh == decks' \ decks
                     post == DeckCards(cards', res'.deck_id)
                 IN /\ decks \subseteq decks'
                    /\ Cardinality(fresh) = 1
                    /\ \A d \in fresh :
                          /\ d.id = res'.deck_id
                          /\ d.owner_id = res'.owner_id
                          /\ d.anki_id = a.manifest.deck.anki_id
                          /\ d.name = a.manifest.deck.name
                          /\ d.target_language = a.manifest.deck.target_language
                    /\ cards' \ post = cards
                    /\ Cardinality(post) = res'.written
                    /\ \A r \in post : \E k \in ValidIdx(a) : Content(r) = Described(a, k)
                    /\ \A k \in ValidIdx(a) :
                          LET e == NamedId(Rows(a)[k])
                              d == Rows(a)[k].direction
                          IN IF e = NULL
                             THEN \E r \in post : Content(r) = Described(a, k)
                             ELSE /\ Cardinality(At(post, res'.deck_id, e, d)) = 1
                                  /\ \A r \in At(post, res'.deck_id, e, d) :
                                        Content(r) = Described(a, LastIdx(a, e, d))
       /\ (/\ res'.op = "import_backup" /\ res'.owner_id = res.owner_id
           /\ res'.archive = res.archive /\ res'.policy = NONE
           /\ res.outcome = "ok" /\ FirstImport)
          => res'.outcome = "conflict"]_vars

\* a first import that stored the one valid card of ArchiveDup, then the conflict
C14_Witness ==
    /\ Imported /\ res.policy = NONE /\ res.outcome = "conflict"
    /\ res.archive = ArchiveDup
    /\ res.pre_decks = decks /\ Cardinality(decks) = 1
    /\ Cardinality(cards) = 1
    /\ \A d \in decks : d.anki_id = 3 /\ d.name = "n1" /\ d.created_at = res.at - 1


\* C15: an import of an upload that is not a well-formed archive ends with the
\* client error (ValueError, HTTP 400) and leaves decks and cards as they were.
C15_MalformedIsClientError ==
    (Imported /\ res.archive \in MalformedArchives) =>
        /\ res.outcome = "value_error"
        /\ decks = res.pre_decks
        /\ cards = res.pre_cards

\* C16: an import of a manifest whose version is not 1 or 2 ends with the
\* client error and leaves decks and cards as they were.
C16_UnsupportedVersionRejected ==
    (Imported /\ "manifest" \in DOMAIN res.archive
     /\ res.archive.manifest.version \notin SUPPORTED_BACKUP_VERSIONS) =>
        /\ res.outcome = "value_error"
        /\ decks = res.pre_decks
        /\ cards = res.pre_cards


\* the manifest rows the decoder keeps, in order
KeptRows(a) == SeqOfIdx(a, 1)
\* an import that got as far as building cards_payload
Decoded == Imported /\ res.outcome \in {"ok", "conflict", "storage_error"}
\* a legacy archive: none of its rows carries entry_anki_id
IsLegacy(a) ==
    /\ "manifest" \in DOMAIN a
    /\ a # NoArchive
    /\ Rows(a) # <<>>
    /\ \A k \in 1..Len(Rows(a)) : Rows(a)[k].entry_anki_id = NULL
\* every decoded row has an identity, and rows of one card_group_id share it
LegacyIdentities(r) ==
    LET rows == KeptRows(r.archive) IN
    /\ Len(r.decoded) = Len(rows)
    /\ \A k \in 1..Len(rows) : r.decoded[k].entry_anki_id # NULL
    /\ \A j, k \in 1..Len(rows) :
          (rows[j].card_group_id # NULL /\ rows[j].card_group_id = rows[k].card_group_id)
              => r.decoded[j].entry_anki_id = r.decoded[k].entry_anki_id

\* C17: decoding a legacy archive (no row has entry_anki_id) gives every kept
\* row an identity, the rows of one card_group_id the same one, and two
\* decodings of the same archive give each row the same identity both times.
C17_StableLegacyIdentity ==
    [][ /\ (Decoded' /\ IsLegacy(res'.archive)) => LegacyIdentities(res')
        /\ (Decoded /\ Decoded' /\ IsLegacy(res.archive) /\ res'.archive = res.archive)
              => \A k \in 1..Len(res.decoded) :
                    res'.decoded[k].entry_anki_id = res.decoded[k].entry_anki_id ]_vars


\* the archive without its rows of invalid direction
Strip(a) == [a EXCEPT !.manifest.cards = KeptRows(a)]
HasInvalidRow(a) ==
    /\ "manifest" \in DOMAIN a
    /\ a # NoArchive
    /\ \E k \in 1..Len(Rows(a)) : Rows(a)[k].direction \notin Directions

\* C18: an import of an archive that has a row of invalid direction raises no
\* error and does exactly what the import of the archive without that row
\* does: same outcome, same conflict descriptor, same decks and cards
\* afterwards, same written count; and no stored card has an invalid direction.
C18_InvalidDirectionDropped ==
    [][ (res'.op = "import_backup" /\ HasInvalidRow(res'.archive)) =>
            /\ res'.outcome \in {"ok", "conflict"}
            /\ \E out \in ImportOutcomes(res'.owner_id, Strip(res'.archive), res'.policy) :
                  /\ out.outcome = res'.outcome
                  /\ out.conflict = res'.conflict
                  /\ out.written = res'.written
                  /\ out.decks = decks'
                  /\ out.cards = cards'
            /\ \A c \in cards' : c.direction \in Directions ]_vars

\* an import of such an archive that wrote its one valid card
C18_Witness ==
    /\ Imported
    /\ HasInvalidRow(res.archive)
    /\ res.outcome = "ok"
    /\ res.written = 1
    /\ \E c \in cards \ res.pre_cards : c.direction = "forward" /\ c.payload = "p2"


\* C19: a reader that ran while an import was in flight saw the owner's decks
\* and cards either as they were before the import or as they are after it.
C19_NoIntermediateState ==
    (conc.pc = "idle" /\ conc.seen # <<>>) => conc.seen \in {conc.pre, <<decks, cards>>}


\* a forward card whose only audio is on the back
BackOnlyForward(c) ==
    c.direction = "forward" /\ ~TruthyStr(c.front_audio) /\ TruthyStr(c.back_audio)

\* C20 as stated: in the encoded archive a forward card with audio on the back
\* only is recorded with front_audio_path set and back_audio_path null.
C20_EncoderRepoints ==
    codec.pc \in {"archive", "decoded"} =>
        \A i \in 1..Len(codec.cards) :
            BackOnlyForward(codec.cards[i]) =>
                /\ codec.archive.manifest.cards[i].front_audio_path # <<>>
                /\ codec.archive.manifest.cards[i].back_audio_path = <<>>

\* C20 amended: the encoded archive keeps the sides of every card (a side has
\* a path exactly when the card has audio on that side, and the member at that
\* path holds that side's audio); it is the Anki package export that plays the
\* back-only audio of a forward card on the front and leaves other cards alone.
C20_EncoderKeepsSides ==
    /\ codec.pc \in {"archive", "decoded"} =>
          \A i \in 1..Len(codec.cards) :
              LET c == codec.cards[i]
                  row == codec.archive.manifest.cards[i]
                  media == codec.archive.media
              IN /\ (row.front_audio_path # <<>>) <=> TruthyStr(c.front_audio)
                 /\ (row.back_audio_path # <<>>) <=> TruthyStr(c.back_audio)
                 /\ TruthyStr(c.front_audio)
                       => ReadMedia(media, row.front_audio_path) = c.front_audio
                 /\ TruthyStr(c.back_audio)
                       => ReadMedia(media, row.back_audio_path) = c.back_audio
    /\ codec.pc = "exported" =>
          \A i \in 1..Len(codec.cards) :
              LET c == codec.cards[i]
                  n == codec.notes[i]
              IN IF BackOnlyForward(c)
                 THEN n.front_audio = c.back_audio /\ n.back_audio = NONE
                 ELSE n.front_audio = c.front_audio /\ n.back_audio = c.back_audio

\* an archive holding a forward card with back-only audio, still on the back
C20_Witness ==
    /\ codec.pc = "archive"
    /\ \E i \in 1..Len(codec.cards) :
          /\ BackOnlyForward(codec.cards[i])
          /\ codec.archive.manifest.cards[i].front_audio_path = <<>>
          /\ codec.archive.manifest.cards[i].back_audio_path = _audio_path(codec.cards[i].id, "back")


\* C21: no step changes the anki_id of an existing deck, and the cards an
\* import adds to or removes from an existing deck are cards of a deck that
\* carries the archive's deck identity.
C21_DeckIdentityFixed ==
    [][ /\ \A d \in decks : \A e \in decks' : e.id = d.id => e.anki_id = d.anki_id
        /\ (res'.op = "import_backup" /\ "manifest" \in DOMAIN res'.archive) =>
              \A c \in (cards' \ cards) \cup (cards \ cards') :
                  \A d \in decks : d.id = c.deck_id =>
                      /\ res'.archive.manifest.deck.anki_id # NULL
                      /\ d.anki_id = res'.archive.manifest.deck.anki_id ]_vars

\* an import that wrote into one of two decks of different identities, the
\* other deck and its cards untouched
C21_Witness ==
    /\ Imported /\ res.outcome = "ok" /\ res.policy = "override"
    /\ \E d1, d2 \in res.pre_decks :
          /\ d1.anki_id # d2.anki_id
          /\ res.deck_id = d1.id
          /\ DeckCards(cards, d1.id) # DeckCards(res.pre_cards, d1.id)
          /\ DeckCards(cards, d2.id) = DeckCards(res.pre_cards, d2.id)
          /\ DeckCards(cards, d2.id) # {}
          /\ \E e \in decks : e.id = d1.id /\ e.anki_id = d1.anki_id /\ e.name # d1.name


\* the archive in hand was exported from the deck as it was before the last
\* request, an edit that succeeded
ExportedThenEdited ==
    /\ codec.pc = "archive"
    /\ res.op = "update_card_group" /\ res.outcome = "ok"
    /\ {codec.cards[i] : i \in 1..Len(codec.cards)} = DeckCards(res.pre_cards, codec.deck.id)
\* the rows the last edit updated, as they are stored (a row of the group the
\* UPDATE did not reach, the twin of a repeated direction, is not one of them)
EditedCards ==
    {c \in cards : /\ c.card_group_id = res.group_id
                   /\ c \notin res.pre_cards
                   /\ \E b \in res.pre_cards : b.id = c.id}
ReimportsNewest ==
    /\ res'.op = "import_backup" /\ res'.archive = codec.archive
    /\ res'.policy = "prefer_newest"

ExportIsCurrent ==
    /\ codec.pc = "archive"
    /\ codec.deck \in decks
    /\ {codec.cards[i] : i \in 1..Len(codec.cards)} = DeckCards(cards, codec.deck.id)
ReimportsMerging ==
    /\ res'.op = "import_backup" /\ res'.archive = codec.archive
    /\ res'.owner_id = codec.deck.owner_id
    /\ res'.policy \in {"prefer_newest", "only_new"}

\* C23: importing the export of the current deck state straight back with
\* prefer_newest or only_new writes 0 cards and leaves every card row as it was.
C23_RoundTripIsNoOp ==
    [][(ExportIsCurrent /\ ReimportsMerging) =>
          (res'.outcome = "ok" /\ res'.written = 0 /\ cards' = cards)]_vars

\* the (entry identity, direction) pairs of a set of stored rows, and of the
\* cards the last import decoded from its archive
Pairs(S) == {<<EntryKey(r), r.direction>> : r \in S}
ArchivePairs ==
    {<<res.decoded[k].entry_anki_id, res.decoded[k].direction>> : k \in 1..Len(res.decoded)}
MergedOk == Imported /\ res.policy \in {"prefer_newest", "only_new"} /\ res.outcome = "ok"

\* C24: an import with prefer_newest or only_new leaves every stored card whose
\* (entry, direction) is not in the archive as it was, and the deck's pairs
\* afterwards are the stored pairs plus the archive's pairs (prefer_newest) or
\* plus the archive's pairs of entries the deck did not hold (only_new).
C24_MergeFrame ==
    MergedOk =>
        LET pre == DeckCards(res.pre_cards, res.deck_id)
            post == DeckCards(cards, res.deck_id)
            held == {EntryKey(r) : r \in pre}
        IN /\ \A b \in pre : <<EntryKey(b), b.direction>> \notin ArchivePairs => b \in post
           /\ Pairs(post) = Pairs(pre) \cup
                 (IF res.policy = "prefer_newest" THEN ArchivePairs
                  ELSE {p \in ArchivePairs : p[1] \notin held})

\* a merge into a deck that holds a card the archive does not name, next to
\* cards it does name, and that stores a card
C24_Witness ==
    /\ MergedOk /\ TargetDecks # {} /\ res.written >= 1
    /\ \E b \in DeckCards(res.pre_cards, res.deck_id) :
          <<EntryKey(b), b.direction>> \notin ArchivePairs /\ b \in cards
    /\ \E b \in DeckCards(res.pre_cards, res.deck_id) :
          <<EntryKey(b), b.direction>> \in ArchivePairs

\* C25: an import into the owner's deck of the archive's identity with
\* override or prefer_newest leaves the deck with the archive's name, target
\* language, field schema (in the normal form every read gives it) and prompt
\* templates, whatever the two updated_at values and the cards written; with
\* only_new the deck row, updated_at included, is what it was.
C25_MetadataFollowsPolicy ==
    (Imported /\ res.outcome = "ok" /\ res.policy # NONE) =>
        \A t \in TargetDecks : t.id = res.deck_id =>
            \E d \in decks :
               /\ d.id = t.id
               /\ IF res.policy = "only_new" THEN d = t
                  ELSE LET m == res.archive.manifest.deck
                       IN /\ d.name = m.name
                          /\ d.target_language = m.target_language
                          /\ d.field_schema = normalize_field_schema(m.field_schema)
                          /\ d.prompt_templates = m.prompt_templates

\* prefer_newest writing no card into a deck that was renamed after the
\* archive's deck was last updated: the deck has the archive's name again
C25_Witness ==
    /\ Imported /\ res.outcome = "ok" /\ res.policy = "prefer_newest"
    /\ res.written = 0
    /\ \E t \in TargetDecks, d \in decks :
          /\ t.id = res.deck_id /\ d.id = t.id
          /\ t.name = "n5" /\ d.name = res.archive.manifest.deck.name
          /\ t.prompt_templates # d.prompt_templates
          /\ t.updated_at > _parse_timestamp(res.archive.manifest.deck.updated_at)

\* the rows of a table that belong to one owner
Owned(S, o) == {r \in S : r.owner_id = o}

\* C26: an import by one owner leaves every deck and card of every other owner
\* as it was; it ends in a conflict only over a deck of its own owner; it
\* stores cards only under its owner and in a deck of its owner; and the deck
\* it writes is the owner's deck of the archive's identity when the owner has
\* one and a deck created for the owner otherwise, whatever decks the other
\* owners hold.
C26_OwnerIsolation ==
    Imported =>
        /\ \A o \in TwoOwners \ {res.owner_id} :
              /\ Owned(decks, o) = Owned(res.pre_decks, o)
              /\ Owned(cards, o) = Owned(res.pre_cards, o)
        /\ res.outcome = "conflict" =>
              /\ TargetDecks # {}
              /\ \E t \in TargetDecks : res.conflict.existingDeck.id = t.id
        /\ \A c \in cards \ res.pre_cards :
              /\ c.owner_id = res.owner_id
              /\ c.deck_id = res.deck_id
              /\ \E d \in decks : d.id = c.deck_id /\ d.owner_id = res.owner_id
        /\ res.outcome = "ok" =>
              IF TargetDecks # {}
              THEN res.policy # NONE /\ \E t \in TargetDecks : t.id = res.deck_id
              ELSE \E d \in decks \ res.pre_decks :
                      d.id = res.deck_id /\ d.owner_id = res.owner_id

\* an owner imports without a policy an archive whose deck identity another
\* owner's deck has and no deck of its own has: a deck of its own is created
C26_Witness ==
    /\ Imported /\ res.policy = NONE /\ res.outcome = "ok" /\ res.written >= 1
    /\ \E d \in res.pre_decks : /\ d.owner_id # res.owner_id
                                 /\ d.anki_id = res.archive.manifest.deck.anki_id
                                 /\ d \in decks
    /\ TargetDecks = {}
    /\ \E d \in decks \ res.pre_decks : d.owner_id = res.owner_id

\* at most one deck of an owner carries a given deck identity
OneDeckPerIdentity ==
    \A d1 \in decks, d2 \in decks :
        (d1.owner_id = d2.owner_id /\ d1.anki_id = d2.anki_id) => d1 = d2

\* C27: once the two concurrent imports have both finished, the owner holds
\* one deck for the deck identity and at most one card per (entry, direction),
\* as after the two imports run one after the other.
C27_AsIfSerial ==
    (\A w \in Workers : conc[w].pc = "idle") =>
        /\ OneDeckPerIdentity
        /\ \A r1 \in cards, r2 \in cards :
              (r1.deck_id = r2.deck_id /\ EntryKey(r1) = EntryKey(r2)
               /\ r1.direction = r2.direction) => r1 = r2

\* C28: all cards of one card group are in one deck.
C28_GroupInOneDeck ==
    \A c1 \in cards, c2 \in cards :
        (c1.owner_id = c2.owner_id /\ c1.card_group_id = c2.card_group_id)
            => c1.deck_id = c2.deck_id

\* C29: within one deck two cards have the same entry identity exactly when
\* they have the same card_group_id.
C29_EntryGroupOneToOne ==
    \A c1 \in cards, c2 \in cards :
        c1.deck_id = c2.deck_id =>
            (EntryKey(c1) = EntryKey(c2) <=> c1.card_group_id = c2.card_group_id)

\* the groups of the listed deck that match the query of the last listing,
\* and the sort key of one of them
ListedGroups ==
    {c.card_group_id : c \in MatchingRows(res.owner_id, res.deck_id, res.search_query)}
SortKey(g) ==
    Max({c.updated_at : c \in {x \in MatchingRows(res.owner_id, res.deck_id, res.search_query)
                                   : x.card_group_id = g}})

\* C30: a listing reports total = the number of distinct matching groups and
\* pages = ceil(total / limit), whatever page was asked for; it returns at
\* most limit groups, all matching, newest update first; it echoes page and
\* limit.
C30_Pagination ==
    res.op = "list_deck_cards" =>
        LET r == res.listing
            total == Cardinality(ListedGroups)
        IN /\ r.total = total
           /\ r.pages = (total + res.limit - 1) \div res.limit
           /\ r.page = res.page /\ r.limit = res.limit
           /\ Len(r.cards) <= res.limit
           /\ \A i \in 1..Len(r.cards) : r.cards[i] \in ListedGroups
           /\ \A i, j \in 1..Len(r.cards) :
                 i < j => (r.cards[i] # r.cards[j] /\ SortKey(r.cards[i]) >= SortKey(r.cards[j]))


====
